---- MODULE Spec2Model ----
(***************************************************************************)
(* A model of the deferred-rendering core of Fyrox: the screen-space       *)
(* ambient occlusion pass (fyrox-impl/src/renderer/ssao/mod.rs), the       *)
(* shader wrappers (ssao/mod.rs Shader, light/point.rs PointLightShader)   *)
(* and the FrameBuffer interface (fyrox-graphics/src/framebuffer.rs).      *)
(*                                                                         *)
(* The graphics backend (GraphicsServer, GpuProgram, Buffer, FrameBuffer   *)
(* implementations) is the environment: every fallible backend call        *)
(* succeeds or fails nondeterministically.                                 *)
(***************************************************************************)
EXTENDS Integers, Sequences, FiniteSets, TLC

----------------------------------------------------------------------------
(* Bounds of the model. *)

\* Frame sizes passed to new are 0..MaxFrame and 64.
MaxFrame == 4
\* Radii passed to set_radius: -MaxRadius and MaxRadius - 1 halves, NaN, -inf.
MaxRadius == 4
\* Number of render calls on one pass.
MaxRenders == 2
\* Number of draw calls on one server.
MaxDraws == 2
\* Number of messages sent to the user interface from outside.
MaxInputs == 2
\* Number of surfaces of a mesh.
MaxSurfaces == 2
\* Number of calls of one editor command.
MaxCalls == 3
\* Number of random streams thread_rng() may produce.
MaxSeed == 2
\* Random draws lie on a grid of step 1/Grid.
Grid == 2
\* Fixed-point unit of the kernel arithmetic: the real 1.0 is One.
One == 1000
\* Side of the pixel grid of the framebuffer of the clear operation.
FbSize == 2

----------------------------------------------------------------------------
(* Program constants. *)

KERNEL_SIZE == 32
NOISE_SIZE == 4
\* f32::EPSILON (1.19e-7) in units of 1/One.
EPSILON == 0

----------------------------------------------------------------------------
(* f32 values.  A finite value is a whole number of halves (0.5 is        *)
(* Fin(1), 2.0 is Fin(4)); an infinity carries its sign in v; NaN is NaN. *)

Fin(n) == [cls |-> "fin", v |-> n]
Inf(s) == [cls |-> "inf", v |-> s]
NaN == [cls |-> "nan", v |-> 0]

\* set_radius without the abs: the sign is kept.
f32_absSignKept(x) == x

\* f32::abs clears the sign bit: NaN stays NaN.
f32_abs(x) == IF x.cls = "nan" THEN x ELSE [x EXCEPT !.v = IF @ < 0 THEN -@ ELSE @]

\* x >= 0.0 in IEEE-754: false for NaN.
f32_ge_zero(x) == x.cls # "nan" /\ x.v >= 0

F32Inputs == {Fin(-MaxRadius), Fin(MaxRadius - 1), NaN, Inf(-1)}

----------------------------------------------------------------------------
(* Result<T, FrameworkError>. *)

Ok(v) == [ok |-> TRUE, val |-> v, err |-> "none"]
Err(e) == [ok |-> FALSE, val |-> "none", err |-> e]

----------------------------------------------------------------------------
(* GPU programs and the shader wrappers.                                   *)

\* Names of the sampler uniforms and uniform blocks a program may expose.
UniformNames == {"depthTexture", "colorTexture", "normalTexture", "materialTexture",
                 "pointShadowTexture", "depthSampler", "normalSampler", "noiseSampler"}
BlockNames == {"Uniforms"}

\* What the server makes of a pair of shader sources: whether they compile
\* and link, and which uniforms and uniform blocks the linked program has.
GlslOutcomes == [compiled : BOOLEAN, uniforms : SUBSET UniformNames, blocks : SUBSET BlockNames]

Lookup(f, k, n) == [field |-> f, kind |-> k, name |-> n]

\* PointLightShader::new: the program name and the lookups in source order.
PointLightShaderDesc ==
  [program |-> "PointLightShader",
   lookups |-> << Lookup("depth_sampler", "uniform", "depthTexture"),
                  Lookup("color_sampler", "uniform", "colorTexture"),
                  Lookup("normal_sampler", "uniform", "normalTexture"),
                  Lookup("material_sampler", "uniform", "materialTexture"),
                  Lookup("point_shadow_texture", "uniform", "pointShadowTexture"),
                  Lookup("uniform_buffer_binding", "block", "Uniforms") >>]

\* ssao Shader::new: the program name and the lookups in source order.
SsaoShaderDesc ==
  [program |-> "SsaoShader",
   lookups |-> << Lookup("depth_sampler", "uniform", "depthSampler"),
                  Lookup("normal_sampler", "uniform", "normalSampler"),
                  Lookup("noise_sampler", "uniform", "noiseSampler"),
                  Lookup("uniform_block_index", "block", "Uniforms") >>]

ShaderDescs == [point |-> PointLightShaderDesc, ssao |-> SsaoShaderDesc]

\* server.create_program / GpuProgram::from_source.
create_program(name, glsl) ==
  IF glsl.compiled THEN Ok([name |-> name, uniforms |-> glsl.uniforms, blocks |-> glsl.blocks])
  ELSE Err(name)

\* program.uniform_location(name) and program.uniform_block_index(name).
uniform_location(program, l) ==
  IF l.kind = "uniform"
  THEN (IF l.name \in program.uniforms THEN Ok(l) ELSE Err(l.name))
  ELSE (IF l.name \in program.blocks THEN Ok(l) ELSE Err(l.name))

\* The struct-literal fields are evaluated in source order, each with `?`:
\* the index of the first lookup that fails, or 0 when all succeed.
RECURSIVE FirstFailedLookup(_, _, _)
FirstFailedLookup(program, lookups, k) ==
  IF k > Len(lookups) THEN 0
  ELSE IF uniform_location(program, lookups[k]).ok
       THEN FirstFailedLookup(program, lookups, k + 1)
       ELSE k

\* new with the uniform-block lookup unchecked: only the sampler lookups
\* can make it fail.
ShaderNewBlockUnchecked(desc, glsl) ==
  LET p == create_program(desc.program, glsl)
      IsUniform(l) == l.kind = "uniform"
      samplers == SelectSeq(desc.lookups, IsUniform) IN
  IF ~p.ok THEN Err(p.err)
  ELSE LET bad == FirstFailedLookup(p.val, samplers, 1) IN
       IF bad # 0 THEN Err(uniform_location(p.val, samplers[bad]).err)
       ELSE Ok([program |-> p.val.name,
                locations |-> [k \in 1..Len(desc.lookups) |-> desc.lookups[k]]])

\* PointLightShader::new and ssao Shader::new.
ShaderNew(desc, glsl) ==
  LET p == create_program(desc.program, glsl) IN
  IF ~p.ok THEN Err(p.err)
  ELSE LET bad == FirstFailedLookup(p.val, desc.lookups, 1) IN
       IF bad # 0 THEN Err(uniform_location(p.val, desc.lookups[bad]).err)
       ELSE Ok([program |-> p.val.name,
                locations |-> [k \in 1..Len(desc.lookups) |->
                                 uniform_location(p.val, desc.lookups[k]).val]])

----------------------------------------------------------------------------
(* The sample kernel.  Reals are fixed-point numbers in units of 1/One;   *)
(* a division rounds to the nearest unit as an f32 operation rounds to    *)
(* the nearest representable value.                                         *)

RoundDiv(a, b) == (2 * a + b) \div (2 * b)

RECURSIVE IsqrtBetween(_, _, _)
IsqrtBetween(n, lo, hi) ==
  IF hi - lo <= 1 THEN lo
  ELSE LET mid == (lo + hi) \div 2 IN
       IF mid <= n \div mid THEN IsqrtBetween(n, mid, hi) ELSE IsqrtBetween(n, lo, mid)

\* The square root, rounded down to a unit.
Isqrt(n) == IsqrtBetween(n, 0, n + 1)

\* core::math::lerpf(a, b, t) = a + (b - a) * t.
lerpf(a, b, t) == a + RoundDiv((b - a) * t, One)

\* rng.gen_range(-1.0..1.0) twice and rng.gen_range(0.0..1.0): the grid
\* points of the half-open ranges, in grid steps.
Draws == ((-Grid)..(Grid - 1)) \X ((-Grid)..(Grid - 1)) \X (0..(Grid - 1))

\* Vector3::new of three draws, in units of 1/One.
Vector3(d) == << RoundDiv(d[1] * One, Grid), RoundDiv(d[2] * One, Grid), RoundDiv(d[3] * One, Grid) >>

\* Vector3::norm.
norm(v) == Isqrt(v[1] * v[1] + v[2] * v[2] + v[3] * v[3])

\* try_normalize that leaves the vector as drawn.
try_normalizeSkipped(v, min_norm) == [some |-> norm(v) > min_norm, v |-> v]

\* Vector3::try_normalize(min_norm): None when the norm is <= min_norm.
try_normalize(v, min_norm) ==
  LET n == norm(v) IN
  IF n <= min_norm THEN [some |-> FALSE, v |-> v]
  ELSE [some |-> TRUE, v |-> << RoundDiv(v[1] * One, n), RoundDiv(v[2] * One, n), RoundDiv(v[3] * One, n) >>]

\* Vector3::scale(s).
scale(v, s) == << RoundDiv(v[1] * s, One), RoundDiv(v[2] * s, One), RoundDiv(v[3] * s, One) >>

\* The scale of sample i: lerpf(0.1, 1.0, k * k) with k = i / KERNEL_SIZE.
KernelScale(i) ==
  LET k == RoundDiv(i * One, KERNEL_SIZE) IN lerpf(One \div 10, One, RoundDiv(k * k, One))

\* One iteration of the kernel loop of new, for sample i (0-based) and the
\* draws d: unwrap panics when the drawn vector cannot be normalized.
KernelSample(i, d) ==
  LET n == try_normalize(Vector3(d), EPSILON) IN
  IF ~n.some THEN [panic |-> TRUE, v |-> << 0, 0, 0 >>]
  ELSE [panic |-> FALSE, v |-> scale(n.v, KernelScale(i))]

\* thread_rng(): stream `seed` yields these draws for sample i.
RngKernelDraws(seed, i) ==
  << ((seed + i) % (2 * Grid)) - Grid, ((seed + 3 * i) % (2 * Grid)) - Grid, (seed + i) % Grid >>

\* ... and these bytes, from gen_range(0u8..255u8), for the R and G
\* channels of noise pixel p.
RngNoiseDraws(seed, p) == << (7 * seed + 3 * p) % 255, (13 * seed + 5 * p + 1) % 255 >>

Seeds == 0..MaxSeed

\* The kernel loop: the array of KERNEL_SIZE samples (1-based here), and
\* whether some iteration panicked.
KernelOf(seed) == [i \in 1..KERNEL_SIZE |-> KernelSample(i - 1, RngKernelDraws(seed, i - 1))]

KernelPanics(seed) ==
  \E i \in 0..(KERNEL_SIZE - 1) : KernelSample(i, RngKernelDraws(seed, i)).panic

\* The pixel buffer of the noise texture: RGB_PIXEL_SIZE bytes per pixel.
NoisePixels(seed) ==
  [p \in 1..(NOISE_SIZE * NOISE_SIZE) |->
     << RngNoiseDraws(seed, p - 1)[1], RngNoiseDraws(seed, p - 1)[2], 0 >>]

----------------------------------------------------------------------------
(* State. *)

VARIABLES
  \* -- the SSAO pass --
  pc,            \* "start", then the outcome of new: "ready", "failed", "panicked"
  newArgs,       \* the arguments and the environment of new: [frame_width, frame_height, env]
  created,       \* the creation steps new attempted, in order
  newResult,     \* what new returned
  ssao,          \* the ScreenSpaceAmbientOcclusionRenderer struct
  textures,      \* the server's textures: handle -> [width, height, pixels, wrap_s, wrap_t, content]
  buffer,        \* the bytes last written to the uniform buffer
  ops,           \* the backend operations of the last render call, in order
  renderResult,  \* what the last render call returned
  renderArgs,    \* the arguments and the environment of the last render call, and
                 \* the G-buffer of the call before it (Option)
  frames,        \* the number of render calls so far
  radiusArg,     \* the argument of the last set_radius call (Option)
  queried,       \* the last result of ao_map / raw_ao_map
  draws,         \* the draw calls of the last render call, in order
  \* -- a shader wrapper under construction --
  shaderIn,      \* [kind, glsl]: which wrapper, and what the server makes of its sources
  shaderOut,     \* [called, result]
  \* -- one iteration of the kernel loop --
  sampleIn,      \* [i, draws]
  sampleOut,     \* [called, sample]
  \* -- a framebuffer being cleared --
  fb,            \* [color, depth, stencil]: pixel -> value
  clearArgs,     \* the arguments of the last clear call
  \* -- a graphics server issuing draw calls --
  pipeline,      \* the pipeline state the server holds
  drawLog,       \* [calls, params]: the draw calls so far, the parameters of the last
  \* -- a user interface with one checkbox --
  cbPc,          \* "unbuilt" or "built"
  checkBox,      \* the CheckBox node: [handle, checked, check_mark, uncheck_mark, undefined_mark]
  visible,       \* the visibility of the widgets of the three marks
  queue,         \* the message queue of the user interface
  captured,      \* the node that captured the mouse (Option)
  uiLog,         \* the builder used, the messages sent from outside, the last polls
  \* -- an editor command on a mesh of the scene --
  mesh,          \* the surfaces of the mesh: the material of each, in order
  materials,     \* material -> the value of its diffuseTexture sampler (Option)
  cmd,           \* the SetMeshTextureCommand: [set]
  cmdPc,         \* "ready", or "panicked" once a call panicked
  cmdLog         \* the calls so far, the panic, and the sampler values at earlier points

ssaoVars == << pc, newArgs, created, newResult, ssao, textures, buffer, ops,
               renderResult, renderArgs, frames, radiusArg, queried, draws >>
shaderVars == << shaderIn, shaderOut >>
sampleVars == << sampleIn, sampleOut >>
clearVars == << fb, clearArgs >>
drawVars == << pipeline, drawLog >>
uiVars == << cbPc, checkBox, visible, queue, captured, uiLog >>
meshVars == << mesh, materials, cmd, cmdPc, cmdLog >>
vars == << ssaoVars, shaderVars, sampleVars, clearVars, drawVars, uiVars, meshVars >>

\* Option<T>: None is the empty sequence, Some(x) the sequence of x.
None == << >>
Some(x) == << x >>

----------------------------------------------------------------------------
(* The SSAO pass: construction. *)

FrameSizes == (0..MaxFrame) \cup {64}

Max(a, b) == IF a >= b THEN a ELSE b

\* The half size without the .max(1).
HalfSizeNoClamp(frame_size) == frame_size \div 2

\* let width = (frame_width / 2).max(1), and the same for the height.
HalfSize(frame_size) == Max(frame_size \div 2, 1)

\* `as i32` of a usize: the value when it fits, wrapped by 2^32 when not.
I32_MAX == 2147483647
AsI32(n) == IF n <= I32_MAX THEN n ELSE (n - I32_MAX - 1) - I32_MAX - 1

\* The steps of new in evaluation order: the occlusion texture first, then
\* the fields of the struct literal in the order they are written.
NewSteps == << "occlusion", "uniform_buffer", "blur", "shader", "framebuffer",
               "quad", "kernel", "noise" >>

\* The steps that ask the backend to create something.
CreationSteps == {"occlusion", "uniform_buffer", "blur", "shader", "framebuffer", "quad", "noise"}

\* What the server makes of the SSAO shader sources, for the pass: they
\* fail to build, or build with at most one of the names missing.
SsaoGlsl ==
  LET all == [compiled |-> TRUE,
              uniforms |-> {"depthSampler", "normalSampler", "noiseSampler"},
              blocks |-> {"Uniforms"}] IN
  {all, [all EXCEPT !.compiled = FALSE], [all EXCEPT !.blocks = {}]}
    \cup {[all EXCEPT !.uniforms = @ \ {n}] : n \in all.uniforms}

\* The environment of one call of new: which backend creations succeed,
\* what the shader sources build to, and the random stream.
NewEnvs == [server : [CreationSteps \ {"shader"} -> BOOLEAN], glsl : SsaoGlsl, seed : Seeds]

\* new with the error of the quad geometry dropped instead of returned.
StepOutcomeQuadUnchecked(step, env) ==
  IF step = "kernel" THEN (IF KernelPanics(env.seed) THEN "panic" ELSE "ok")
  ELSE IF step = "shader" THEN (IF ShaderNew(SsaoShaderDesc, env.glsl).ok THEN "ok" ELSE "err")
  ELSE IF step = "quad" \/ env.server[step] THEN "ok" ELSE "err"

\* The outcome of one step of new: "ok", "err" (the `?` returns) or "panic".
StepOutcome(step, env) ==
  IF step = "kernel" THEN (IF KernelPanics(env.seed) THEN "panic" ELSE "ok")
  ELSE IF step = "shader" THEN (IF ShaderNew(SsaoShaderDesc, env.glsl).ok THEN "ok" ELSE "err")
  ELSE IF env.server[step] THEN "ok" ELSE "err"

\* The index of the step at which new stops early, or 0 when it runs to the end.
RECURSIVE FirstStop(_, _)
FirstStop(env, k) ==
  IF k > Len(NewSteps) THEN 0
  ELSE IF StepOutcome(NewSteps[k], env) = "ok" THEN FirstStop(env, k + 1) ELSE k

\* A texture as the server creates it.
Texture(w, h, pixels) ==
  [width |-> w, height |-> h, pixels |-> pixels, wrap_s |-> "Default", wrap_t |-> "Default",
   content |-> [op |-> "none", frame |-> 0, of |-> "none"]]

\* The handles of the three textures of a pass, in creation order.
OcclusionTex == 1
BlurTex == 2
NoiseTex == 3

\* Attachment and the framebuffer made by server.create_frame_buffer.
Attachment(kind, texture) == [kind |-> kind, texture |-> texture]
create_frame_buffer(depth_attachment, color_attachments) ==
  [depth |-> depth_attachment, color |-> color_attachments]

\* Blur::new(server, width, height): a framebuffer with one color attachment.
BlurNew(width, height) ==
  [framebuffer |-> create_frame_buffer(None, << Attachment("Color", BlurTex) >>),
   width |-> width, height |-> height]

\* The struct before new has returned one.
NoPass ==
  [blur |-> BlurNew(0, 0), shader |-> [program |-> "none", locations |-> << >>],
   framebuffer |-> create_frame_buffer(None, << >>), width |-> 0, height |-> 0,
   noise |-> 0, kernel |-> << >>, radius |-> Fin(0)]

\* The struct new returns when every step succeeds.
NewPass(frame_width, frame_height, env) ==
  LET width == HalfSize(frame_width)
      height == HalfSize(frame_height) IN
  [blur |-> BlurNew(width, height),
   shader |-> ShaderNew(SsaoShaderDesc, env.glsl).val,
   framebuffer |-> create_frame_buffer(None, << Attachment("Color", OcclusionTex) >>),
   width |-> AsI32(width),
   height |-> AsI32(height),
   noise |-> NoiseTex,
   kernel |-> [i \in 1..KERNEL_SIZE |-> KernelOf(env.seed)[i].v],
   radius |-> Fin(1)]

\* The textures with the S wrap mode of the noise texture set twice and
\* its T wrap mode never.
NewTexturesWrapSTwice(frame_width, frame_height, env) ==
  LET width == HalfSize(frame_width)
      height == HalfSize(frame_height) IN
  << Texture(width, height, << >>),
     Texture(width, height, << >>),
     [Texture(NOISE_SIZE, NOISE_SIZE, NoisePixels(env.seed))
        EXCEPT !.wrap_s = "Repeat"] >>

\* The textures of a pass that new returned.
NewTextures(frame_width, frame_height, env) ==
  LET width == HalfSize(frame_width)
      height == HalfSize(frame_height) IN
  << Texture(width, height, << >>),
     Texture(width, height, << >>),
     [Texture(NOISE_SIZE, NOISE_SIZE, NoisePixels(env.seed))
        EXCEPT !.wrap_s = "Repeat", !.wrap_t = "Repeat"] >>

\* ScreenSpaceAmbientOcclusionRenderer::new(server, frame_width, frame_height).
New(frame_width, frame_height, env) ==
  LET stop == FirstStop(env, 1)
      outcome == IF stop = 0 THEN "ok" ELSE StepOutcome(NewSteps[stop], env) IN
  /\ pc = "start"
  /\ newArgs' = [frame_width |-> frame_width, frame_height |-> frame_height, env |-> env]
  /\ created' = IF stop = 0 THEN NewSteps ELSE SubSeq(NewSteps, 1, stop)
  /\ pc' = IF outcome = "ok" THEN "ready" ELSE IF outcome = "err" THEN "failed" ELSE "panicked"
  /\ newResult' = IF outcome = "ok" THEN Ok("pass")
                  ELSE IF outcome = "err" THEN Err(NewSteps[stop]) ELSE Err("panic")
  /\ ssao' = IF outcome = "ok" THEN NewPass(frame_width, frame_height, env) ELSE NoPass
  /\ textures' = IF outcome = "ok" THEN NewTextures(frame_width, frame_height, env) ELSE << >>
  /\ UNCHANGED << buffer, ops, renderResult, renderArgs, frames, radiusArg, queried, draws >>

----------------------------------------------------------------------------
(* The SSAO pass: setters, getters and render. *)

\* set_radius that also rescales the kernel by the radius.
SetRadiusScalesKernel(r) ==
  /\ pc = "ready"
  /\ ssao' = [ssao EXCEPT !.radius = f32_abs(r),
                          !.kernel = [i \in DOMAIN @ |-> scale(@[i], f32_abs(r).v * One)]]
  /\ radiusArg' = Some(r)
  /\ UNCHANGED << pc, newArgs, created, newResult, textures, buffer, ops,
                  renderResult, renderArgs, frames, queried, draws >>

\* ScreenSpaceAmbientOcclusionRenderer::set_radius(radius).
SetRadius(r) ==
  /\ pc = "ready"
  /\ ssao' = [ssao EXCEPT !.radius = f32_abs(r)]
  /\ radiusArg' = Some(r)
  /\ UNCHANGED << pc, newArgs, created, newResult, textures, buffer, ops,
                  renderResult, renderArgs, frames, queried, draws >>

\* Blur::result(): the texture of the blur framebuffer's first color attachment.
BlurResult(blur) == blur.framebuffer.color[1].texture

\* raw_ao_map returning the noise texture.
raw_ao_mapNoise(self) == self.noise

\* raw_ao_map(): self.framebuffer.color_attachments()[0].texture.
raw_ao_map(self) == self.framebuffer.color[1].texture

\* ao_map(): self.blur.result().
ao_map(self) == BlurResult(self.blur)

\* A caller reads ao_map().
AoMap ==
  /\ pc = "ready"
  /\ queried' = [fn |-> "ao_map", texture |-> ao_map(ssao)]
  /\ UNCHANGED << pc, newArgs, created, newResult, ssao, textures, buffer, ops,
                  renderResult, renderArgs, frames, radiusArg, draws >>

\* render reads raw_ao_map() (the getter is private); so may a test.
RawAoMap ==
  /\ pc = "ready"
  /\ queried' = [fn |-> "raw_ao_map", texture |-> raw_ao_map(ssao)]
  /\ UNCHANGED << pc, newArgs, created, newResult, ssao, textures, buffer, ops,
                  renderResult, renderArgs, frames, radiusArg, draws >>

\* The G-buffers a frame may pass: the handles of their depth and normal textures.
GBuffers == {[depth |-> 11, normal |-> 12], [depth |-> 21, normal |-> 22]}

\* Projection matrices: one invertible, one not.
Projections == {"identity", "singular"}
Views == {"identity"}

\* projection_matrix.try_inverse().unwrap_or_default().
InverseOrDefault(m) == IF m = "identity" THEN "identity" ELSE "zero"

\* The backend operations of render that can fail.
RenderOps == {"write_data", "draw", "blur.render"}
\* The backend fails at most one of them in a render call.
RenderEnvs == {env \in [RenderOps -> BOOLEAN] : Cardinality({op \in RenderOps : ~env[op]}) <= 1}

\* The pushes with the projection ahead of its inverse.
UniformsProjectionFirst(self, projection_matrix, view_matrix) ==
  << [field |-> "frame_matrix", value |-> << self.width, self.height >>],
     [field |-> "projection", value |-> projection_matrix],
     [field |-> "inv_projection", value |-> InverseOrDefault(projection_matrix)],
     [field |-> "kernel", value |-> self.kernel],
     [field |-> "noise_scale", value |-> << self.width, NOISE_SIZE, self.height, NOISE_SIZE >>],
     [field |-> "view", value |-> view_matrix],
     [field |-> "radius", value |-> self.radius] >>

\* The pushes into the StaticUniformBuffer, in order.
Uniforms(self, projection_matrix, view_matrix) ==
  << [field |-> "frame_matrix", value |-> << self.width, self.height >>],
     [field |-> "inv_projection", value |-> InverseOrDefault(projection_matrix)],
     [field |-> "projection", value |-> projection_matrix],
     [field |-> "kernel", value |-> self.kernel],
     [field |-> "noise_scale", value |-> << self.width, NOISE_SIZE, self.height, NOISE_SIZE >>],
     [field |-> "view", value |-> view_matrix],
     [field |-> "radius", value |-> self.radius] >>

\* FrameBuffer::clear of the pass's framebuffer over its whole viewport with
\* Some(color): the color attachments hold the clear color.
ClearTarget(tex, fbuf, n) ==
  [h \in DOMAIN tex |->
     IF \E a \in 1..Len(fbuf.color) : fbuf.color[a].texture = h
     THEN [tex[h] EXCEPT !.content = [op |-> "clear", frame |-> n, of |-> "none"]]
     ELSE tex[h]]

\* FrameBuffer::draw of the full-screen quad with the SSAO program: the
\* color attachments hold the occlusion of frame n.
DrawTarget(tex, fbuf, n) ==
  [h \in DOMAIN tex |->
     IF \E a \in 1..Len(fbuf.color) : fbuf.color[a].texture = h
     THEN [tex[h] EXCEPT !.content = [op |-> "ssao", frame |-> n, of |-> "none"]]
     ELSE tex[h]]

\* Blur::render(input): the blur's result texture holds the blur of what
\* the input texture holds.
BlurRender(tex, blur, input) ==
  [tex EXCEPT ![BlurResult(blur)].content =
     [op |-> "blur", frame |-> tex[input].content.frame, of |-> tex[input].content.op]]

\* The DrawParameters literal of the SSAO draw.
SsaoDrawParameters ==
  [cull_face |-> None, color_write |-> "default", depth_write |-> FALSE,
   stencil_test |-> None, depth_test |-> None, blend |-> None,
   stencil_op |-> "default", scissor_box |-> None]

\* self.shader.<field>: the location Shader::new resolved for the field.
ShaderField(shader, f) ==
  shader.locations[CHOOSE k \in DOMAIN shader.locations : shader.locations[k].field = f]

\* ResourceBinding::texture_with_binding(texture, 0) in place of ::texture.
ResourceBindingTextureExplicit(texture, shader_location) ==
  [kind |-> "Texture", resource |-> texture,
   shader_location |-> [kind |-> "ExplicitBinding", location |-> Lookup("none", "binding", "0")]]

\* ResourceBinding::texture(texture, shader_location).
ResourceBindingTexture(texture, shader_location) ==
  [kind |-> "Texture", resource |-> texture,
   shader_location |-> [kind |-> "Uniform", location |-> shader_location]]

\* The handle of the pass's uniform buffer.
UniformBufferId == 1

\* ResourceBinding::Buffer { buffer, shader_location }.
ResourceBindingBuffer(buffer_id, shader_location) ==
  [kind |-> "Buffer", resource |-> buffer_id,
   shader_location |-> [kind |-> "Auto", location |-> shader_location]]

\* The bind group with the pass's own occlusion texture in the noise slot.
SsaoBindGroupOwnTarget(self, gbuffer) ==
  [bindings |->
     << ResourceBindingTexture(gbuffer.depth, ShaderField(self.shader, "depth_sampler")),
        ResourceBindingTexture(gbuffer.normal, ShaderField(self.shader, "normal_sampler")),
        ResourceBindingTexture(raw_ao_map(self), ShaderField(self.shader, "noise_sampler")),
        ResourceBindingBuffer(UniformBufferId,
                              ShaderField(self.shader, "uniform_block_index")) >>]

\* The ResourceBindGroup render builds for its draw.
SsaoBindGroup(self, gbuffer) ==
  [bindings |->
     << ResourceBindingTexture(gbuffer.depth, ShaderField(self.shader, "depth_sampler")),
        ResourceBindingTexture(gbuffer.normal, ShaderField(self.shader, "normal_sampler")),
        ResourceBindingTexture(self.noise, ShaderField(self.shader, "noise_sampler")),
        ResourceBindingBuffer(UniformBufferId,
                              ShaderField(self.shader, "uniform_block_index")) >>]

\* The draw call of render: the framebuffer drawn into, the parameters and
\* the bind groups.
SsaoDraw(self, gbuffer) ==
  [pass |-> "ssao", framebuffer |-> self.framebuffer, params |-> SsaoDrawParameters,
   groups |-> << SsaoBindGroup(self, gbuffer) >>]

\* The draw call of Blur::render(input): it samples the input texture and
\* draws into the blur's own framebuffer.
BlurDraw(blur, input) ==
  [pass |-> "blur", framebuffer |-> blur.framebuffer,
   groups |-> << [bindings |->
                    << ResourceBindingTexture(input, Lookup("input", "uniform", "inputTexture")) >>] >>]

\* The draw calls of the operations a render call got to, in their order.
RenderDraws(opsDone, self, gbuffer) ==
  LET IsDraw(op) == op \in {"draw", "blur.render"}
      sel == SelectSeq(opsDone, IsDraw) IN
  [k \in 1..Len(sel) |->
     IF sel[k] = "draw" THEN SsaoDraw(self, gbuffer)
     ELSE BlurDraw(self.blur, raw_ao_map(self))]

\* render with the blur ahead of the draw.
RenderStepsBlurFirst == << "clear", "write_data", "blur.render", "draw" >>

\* The backend operations of render in the order of the source: only the
\* blur sub-pass follows the draw.
RenderSteps == << "clear", "write_data", "draw", "blur.render" >>

\* render with the error of the draw dropped instead of returned.
OpOkDrawIgnored(op, env) == IF op \in {"clear", "draw"} THEN TRUE ELSE env[op]

\* Whether an operation succeeds: clear returns nothing, the others a Result.
OpOk(op, env) == IF op = "clear" THEN TRUE ELSE env[op]

\* The index of the operation whose error `?` returns, or 0 when there is none.
RECURSIVE FirstFailedOp(_, _)
FirstFailedOp(env, k) ==
  IF k > Len(RenderSteps) THEN 0
  ELSE IF OpOk(RenderSteps[k], env) THEN FirstFailedOp(env, k + 1) ELSE k

\* What a successful operation does to the textures and the uniform buffer.
OpEffect(op, st, self, n, uniforms) ==
  IF op = "clear" THEN [st EXCEPT !.textures = ClearTarget(@, self.framebuffer, n)]
  ELSE IF op = "write_data" THEN [st EXCEPT !.buffer = uniforms]
  ELSE IF op = "draw" THEN [st EXCEPT !.textures = DrawTarget(@, self.framebuffer, n)]
  ELSE [st EXCEPT !.textures = BlurRender(@, self.blur, raw_ao_map(self))]

\* The effects of the operations k..last, in order.
RECURSIVE RunOps(_, _, _, _, _, _)
RunOps(st, k, last, self, n, uniforms) ==
  IF k > last THEN st
  ELSE RunOps(OpEffect(RenderSteps[k], st, self, n, uniforms), k + 1, last, self, n, uniforms)

\* RenderPassStatistics::default().
DefaultStatistics == [draw_calls |-> 0, triangles_rendered |-> 0]

\* The triangles of the unit quad the pass draws.
QuadTriangles == 2

\* The DrawCallStatistics a draw call returns.
DrawCallStatistics(triangles) == [triangles |-> triangles]

\* RenderPassStatistics += DrawCallStatistics: one more draw call and its
\* triangles.
AddAssign(stats, draw_stats) ==
  [draw_calls |-> stats.draw_calls + 1,
   triangles_rendered |-> stats.triangles_rendered + draw_stats.triangles]

\* The statistics of render after the operations k..Len(RenderSteps): the
\* result of the draw is added with +=, the result of blur.render is dropped
\* once `?` has taken its error.
RECURSIVE RenderStatistics(_, _)
RenderStatistics(stats, k) ==
  IF k > Len(RenderSteps) THEN stats
  ELSE IF RenderSteps[k] = "draw"
       THEN RenderStatistics(AddAssign(stats, DrawCallStatistics(QuadTriangles)), k + 1)
       ELSE RenderStatistics(stats, k + 1)

\* ScreenSpaceAmbientOcclusionRenderer::render(gbuffer, projection_matrix, view_matrix).
Render(gbuffer, projection_matrix, view_matrix, env) ==
  LET n == frames + 1
      stop == FirstFailedOp(env, 1)
      succeeded == IF stop = 0 THEN Len(RenderSteps) ELSE stop - 1
      after == RunOps([textures |-> textures, buffer |-> buffer], 1, succeeded, ssao, n,
                      Uniforms(ssao, projection_matrix, view_matrix)) IN
  /\ pc = "ready"
  /\ frames < MaxRenders
  /\ frames' = n
  /\ renderArgs' = [gbuffer |-> gbuffer, projection_matrix |-> projection_matrix,
                    view_matrix |-> view_matrix, env |-> env,
                    previous |-> IF frames = 0 THEN None ELSE Some(renderArgs.gbuffer)]
  /\ ops' = IF stop = 0 THEN RenderSteps ELSE SubSeq(RenderSteps, 1, stop)
  /\ renderResult' = IF stop = 0 THEN Ok(RenderStatistics(DefaultStatistics, 1))
                     ELSE Err(RenderSteps[stop])
  /\ draws' = RenderDraws(ops', ssao, gbuffer)
  /\ textures' = after.textures
  /\ buffer' = after.buffer
  /\ UNCHANGED << pc, newArgs, created, newResult, ssao, radiusArg, queried >>

----------------------------------------------------------------------------
(* A shader wrapper is constructed. *)

ShaderNewCall ==
  /\ ~shaderOut.called
  /\ shaderOut' = [called |-> TRUE, result |-> ShaderNew(ShaderDescs[shaderIn.kind], shaderIn.glsl)]
  /\ UNCHANGED << shaderIn, ssaoVars, sampleVars, clearVars, drawVars, uiVars, meshVars >>

----------------------------------------------------------------------------
(* One iteration of the kernel loop. *)

GenSample ==
  /\ ~sampleOut.called
  /\ sampleOut' = [called |-> TRUE, sample |-> KernelSample(sampleIn.i, sampleIn.draws)]
  /\ UNCHANGED << sampleIn, ssaoVars, shaderVars, clearVars, drawVars, uiVars, meshVars >>

----------------------------------------------------------------------------
(* FrameBuffer::clear(viewport, color, depth, stencil).  A framebuffer    *)
(* with a color and a depth-stencil attachment of FbSize x FbSize pixels. *)

Pixels == (0..(FbSize - 1)) \X (0..(FbSize - 1))

\* Rect<i32>: position and size.
Rect(x, y, w, h) == [x |-> x, y |-> y, w |-> w, h |-> h]
Viewports == {Rect(x, y, w, h) : x \in 0..(FbSize - 1), y \in 0..(FbSize - 1),
                                 w \in 1..FbSize, h \in 1..FbSize}

Inside(p, viewport) ==
  /\ viewport.x <= p[1] /\ p[1] < viewport.x + viewport.w
  /\ viewport.y <= p[2] /\ p[2] < viewport.y + viewport.h

ClearColors == {None, Some("black")}
ClearDepths == {None, Some(1)}
ClearStencils == {None, Some(7)}

\* A clear that ignores the viewport.
ClearChannelWholeTarget(plane, viewport, value) ==
  [p \in Pixels |-> IF value # None THEN value[1] ELSE plane[p]]

\* One channel after a clear: the pixels of the viewport take the value if
\* there is one.
ClearChannel(plane, viewport, value) ==
  [p \in Pixels |-> IF value # None /\ Inside(p, viewport) THEN value[1] ELSE plane[p]]

Clear(viewport, color, depth, stencil) ==
  /\ clearArgs.calls = 0
  /\ fb' = [color |-> ClearChannel(fb.color, viewport, color),
            depth |-> ClearChannel(fb.depth, viewport, depth),
            stencil |-> ClearChannel(fb.stencil, viewport, stencil)]
  /\ clearArgs' = [calls |-> clearArgs.calls + 1, viewport |-> viewport, color |-> color,
                   depth |-> depth, stencil |-> stencil, before |-> fb]
  /\ UNCHANGED << ssaoVars, shaderVars, sampleVars, drawVars, uiVars, meshVars >>

----------------------------------------------------------------------------
(* A graphics server issuing draw calls: the pipeline state of a draw. *)

\* A switchable piece of pipeline state: whether it is on, and its setting.
Slot(enabled, value) == [enabled |-> enabled, value |-> value]

\* The pipeline state of a fresh server.
DefaultPipeline ==
  [cull_face |-> Slot(FALSE, "none"), color_write |-> "default", depth_write |-> TRUE,
   stencil_test |-> Slot(FALSE, "none"), depth_test |-> Slot(FALSE, "none"),
   blend |-> Slot(FALSE, "none"), stencil_op |-> "default",
   scissor_box |-> Slot(FALSE, "none")]

\* The DrawParameters a draw call may pass.
DrawParameterSets ==
  [cull_face : {None, Some("Back")}, color_write : {"default", "none"},
   depth_write : BOOLEAN, stencil_test : {None, Some("Always")},
   depth_test : {None, Some("Less")}, blend : {None, Some("alpha")},
   stencil_op : {"default", "replace"}, scissor_box : {None, Some("box")}]

\* An Option field that switches the state on for Some and leaves it as it
\* is for None.
SetOptionNeverDisabled(slot, opt) == IF opt = None THEN slot ELSE Slot(TRUE, opt[1])

\* An Option field of DrawParameters: Some(x) switches the state on with
\* setting x, None switches it off.
SetOption(slot, opt) == IF opt = None THEN Slot(FALSE, slot.value) ELSE Slot(TRUE, opt[1])

\* The server applies every field of the draw's parameters.
ApplyDrawParameters(state, params) ==
  [cull_face |-> SetOption(state.cull_face, params.cull_face),
   color_write |-> params.color_write,
   depth_write |-> params.depth_write,
   stencil_test |-> SetOption(state.stencil_test, params.stencil_test),
   depth_test |-> SetOption(state.depth_test, params.depth_test),
   blend |-> SetOption(state.blend, params.blend),
   stencil_op |-> params.stencil_op,
   scissor_box |-> SetOption(state.scissor_box, params.scissor_box)]

\* FrameBuffer::draw(geometry, viewport, program, params, resources, element_range).
Draw(params) ==
  /\ drawLog.calls < MaxDraws
  /\ pipeline' = ApplyDrawParameters(pipeline, params)
  /\ drawLog' = [calls |-> drawLog.calls + 1, params |-> params]
  /\ UNCHANGED << ssaoVars, shaderVars, sampleVars, clearVars, uiVars, meshVars >>

----------------------------------------------------------------------------
(* The checkbox widget and the user interface that routes its messages. *)

\* Option<bool>.
OptionBool == {None, Some(FALSE), Some(TRUE)}
UnwrapOr(opt, default) == IF opt = None THEN default ELSE opt[1]

\* The nodes of the interface: the checkbox, the widgets build creates under
\* it, and a widget outside it.
Nodes == {"check_box", "grid", "background", "check_mark", "uncheck_mark",
          "undefined_mark", "other"}

\* The parent build gives every node ("NONE" for a root): the marks are
\* linked to the background, the background is a child of the grid and the
\* grid a child of the checkbox.
Parent ==
  [n \in Nodes |->
     IF n \in {"check_mark", "uncheck_mark", "undefined_mark"} THEN "background"
     ELSE IF n = "background" THEN "grid"
     ELSE IF n = "grid" THEN "check_box"
     ELSE "NONE"]

\* Widget::has_descendant(handle, ui): handle is below node in the tree.
RECURSIVE HasDescendant(_, _)
HasDescendant(node, handle) ==
  IF handle \notin Nodes \/ Parent[handle] = "NONE" THEN FALSE
  ELSE Parent[handle] = node \/ HasDescendant(node, Parent[handle])

\* A UiMessage: its data (kind and payload), destination, direction and
\* handled flag.
UiMessage(kind, destination, direction) ==
  [kind |-> kind, destination |-> destination, direction |-> direction,
   handled |-> FALSE, value |-> None, button |-> "none", key |-> "none",
   visibility |-> FALSE]

\* CheckBoxMessage::checked(destination, direction, value).
CheckBoxMessageChecked(destination, direction, value) ==
  [UiMessage("Check", destination, direction) EXCEPT !.value = value]

\* WidgetMessage::visibility(destination, direction, visibility).
WidgetMessageVisibility(destination, direction, visibility) ==
  [UiMessage("Visibility", destination, direction) EXCEPT !.visibility = visibility]

\* WidgetMessage::MouseDown { button } and ::MouseUp { button }.
WidgetMessageMouse(kind, destination, button) ==
  [UiMessage(kind, destination, "FromWidget") EXCEPT !.button = button]

\* WidgetMessage::KeyDown(key_code).
WidgetMessageKeyDown(destination, key, handled) ==
  [UiMessage("KeyDown", destination, "FromWidget") EXCEPT !.key = key, !.handled = handled]

\* UiMessage::reverse(): the same message in the other direction.
Reverse(message) ==
  [message EXCEPT !.direction = IF @ = "ToWidget" THEN "FromWidget" ELSE "ToWidget"]

\* A builder whose state starts undefined.
CheckBoxBuilderNewUndefined == [checked |-> None, calls |-> << >>]

\* CheckBoxBuilder::new(widget_builder).
CheckBoxBuilderNew == [checked |-> Some(FALSE), calls |-> << >>]

\* CheckBoxBuilder::checked(value).
Checked(builder, value) ==
  [builder EXCEPT !.checked = value, !.calls = Append(@, "checked")]

\* The builders a caller hands to build.
Builders == {CheckBoxBuilderNew} \cup {Checked(CheckBoxBuilderNew, v) : v \in OptionBool}

\* The visibility messages with the uncheck mark shown as the check mark is.
MarkMessagesUncheckAsCheck(self, value) ==
  IF value = None
  THEN << WidgetMessageVisibility(self.check_mark, "ToWidget", FALSE),
          WidgetMessageVisibility(self.uncheck_mark, "ToWidget", FALSE),
          WidgetMessageVisibility(self.undefined_mark, "ToWidget", TRUE) >>
  ELSE << WidgetMessageVisibility(self.check_mark, "ToWidget", value[1]),
          WidgetMessageVisibility(self.uncheck_mark, "ToWidget", value[1]),
          WidgetMessageVisibility(self.undefined_mark, "ToWidget", FALSE) >>

\* The visibility messages an accepted Check(value) sends to the marks.
MarkMessages(self, value) ==
  IF value = None
  THEN << WidgetMessageVisibility(self.check_mark, "ToWidget", FALSE),
          WidgetMessageVisibility(self.uncheck_mark, "ToWidget", FALSE),
          WidgetMessageVisibility(self.undefined_mark, "ToWidget", TRUE) >>
  ELSE << WidgetMessageVisibility(self.check_mark, "ToWidget", value[1]),
          WidgetMessageVisibility(self.uncheck_mark, "ToWidget", ~value[1]),
          WidgetMessageVisibility(self.undefined_mark, "ToWidget", FALSE) >>

\* What a handler leaves: the checkbox, the messages it sent, the mouse
\* capture and the handled flag of the message.
Handled(self, sent, mouse, handled) ==
  [self |-> self, sent |-> sent, captured |-> mouse, handled |-> handled]

\* The test of the Check arm reduced to the destination.
CheckAcceptedAlways(self, message) == message.destination = self.handle

\* The test of the Check arm without the direction.
CheckAcceptedAnyDirection(self, message) ==
  /\ message.destination = self.handle
  /\ self.checked # message.value

\* The test of the Check arm.
CheckAccepted(self, message) ==
  /\ message.direction = "ToWidget"
  /\ message.destination = self.handle
  /\ self.checked # message.value

\* The Check arm that sends no response.
OnCheckNoResponse(self, mouse, message) ==
  IF CheckAccepted(self, message)
  THEN Handled([self EXCEPT !.checked = message.value],
               IF self.check_mark # "NONE" THEN MarkMessages(self, message.value) ELSE << >>,
               mouse, message.handled)
  ELSE Handled(self, << >>, mouse, message.handled)

\* The arm of CheckBoxMessage::Check(value).
OnCheck(self, mouse, message) ==
  IF CheckAccepted(self, message)
  THEN Handled([self EXCEPT !.checked = message.value],
               << Reverse(message) >>
                 \o (IF self.check_mark # "NONE" THEN MarkMessages(self, message.value)
                     ELSE << >>),
               mouse, message.handled)
  ELSE Handled(self, << >>, mouse, message.handled)

\* Whether a mouse message is a left-button one on the checkbox or below it.
LeftOnCheckBox(self, message) ==
  /\ message.button = "Left"
  /\ (message.destination = self.handle \/ HasDescendant(self.handle, message.destination))

\* The MouseDown arm without the test of the button.
OnMouseDownAnyButton(self, mouse, message) ==
  IF message.destination = self.handle \/ HasDescendant(self.handle, message.destination)
  THEN Handled(self, << >>, Some(self.handle), message.handled)
  ELSE Handled(self, << >>, mouse, message.handled)

\* The arm of WidgetMessage::MouseDown.
OnMouseDown(self, mouse, message) ==
  IF LeftOnCheckBox(self, message)
  THEN Handled(self, << >>, Some(self.handle), message.handled)
  ELSE Handled(self, << >>, mouse, message.handled)

\* The MouseUp arm that toggles the undefined state to itself.
OnMouseUpMapped(self, mouse, message) ==
  IF LeftOnCheckBox(self, message)
  THEN Handled(self,
               << CheckBoxMessageChecked(self.handle, "ToWidget",
                    IF self.checked # None THEN Some(~self.checked[1]) ELSE None) >>,
               None, message.handled)
  ELSE Handled(self, << >>, mouse, message.handled)

\* The arm of WidgetMessage::MouseUp.
OnMouseUp(self, mouse, message) ==
  IF LeftOnCheckBox(self, message)
  THEN Handled(self,
               << CheckBoxMessageChecked(self.handle, "ToWidget",
                    IF self.checked # None THEN Some(~self.checked[1]) ELSE Some(TRUE)) >>,
               None, message.handled)
  ELSE Handled(self, << >>, mouse, message.handled)

\* The KeyDown arm that toggles the undefined state as a click does.
OnKeyDownAsClick(self, mouse, message) ==
  IF ~message.handled /\ message.key = "Space"
  THEN Handled(self,
               << CheckBoxMessageChecked(self.handle, "ToWidget",
                    IF self.checked = None THEN Some(TRUE) ELSE Some(~self.checked[1])) >>,
               mouse, TRUE)
  ELSE Handled(self, << >>, mouse, message.handled)

\* The arm of WidgetMessage::KeyDown.
OnKeyDown(self, mouse, message) ==
  IF ~message.handled /\ message.key = "Space"
  THEN Handled(self,
               << CheckBoxMessageChecked(self.handle, "ToWidget",
                    IF self.checked = None THEN None ELSE Some(~self.checked[1])) >>,
               mouse, TRUE)
  ELSE Handled(self, << >>, mouse, message.handled)

\* CheckBox::handle_routed_message(ui, message).
CheckBoxHandleRoutedMessage(self, mouse, message) ==
  IF message.kind = "MouseDown" THEN OnMouseDown(self, mouse, message)
  ELSE IF message.kind = "MouseUp" THEN OnMouseUp(self, mouse, message)
  ELSE IF message.kind = "KeyDown" THEN OnKeyDown(self, mouse, message)
  ELSE IF message.kind = "Check" THEN OnCheck(self, mouse, message)
  ELSE Handled(self, << >>, mouse, message.handled)

\* Widget::handle_routed_message of the mark widgets: a visibility message
\* sent to a widget sets its visibility.
WidgetHandleRoutedMessage(vis, message) ==
  IF /\ message.kind = "Visibility"
     /\ message.direction = "ToWidget"
     /\ message.destination \in DOMAIN vis
  THEN [vis EXCEPT ![message.destination] = message.visibility]
  ELSE vis

\* The visibilities build gives the three marks.
BuildVisibility(builder) ==
  [check_mark |-> UnwrapOr(builder.checked, FALSE),
   uncheck_mark |-> ~UnwrapOr(builder.checked, TRUE),
   undefined_mark |-> builder.checked = None]

\* CheckBoxBuilder::build(ctx).
Build(builder) ==
  /\ cbPc = "unbuilt"
  /\ cbPc' = "built"
  /\ checkBox' = [handle |-> "check_box", checked |-> builder.checked,
                  check_mark |-> "check_mark", uncheck_mark |-> "uncheck_mark",
                  undefined_mark |-> "undefined_mark"]
  /\ visible' = BuildVisibility(builder)
  /\ uiLog' = [uiLog EXCEPT !.builder = builder]
  /\ UNCHANGED << queue, captured >>
  /\ UNCHANGED << ssaoVars, shaderVars, sampleVars, clearVars, drawVars, meshVars >>

\* Whether a message counts as a click on the checkbox.
IsClick(message) ==
  message.kind = "MouseUp" /\ LeftOnCheckBox(checkBox, message)

\* UserInterface::send_message(message), called from outside the checkbox.
SendMessage(message) ==
  /\ cbPc = "built"
  /\ uiLog.inputs < MaxInputs
  /\ queue' = Append(queue, message)
  /\ uiLog' = [uiLog EXCEPT !.inputs = @ + 1,
                            !.clicks = IF IsClick(message) THEN @ + 1 ELSE @]
  /\ UNCHANGED << cbPc, checkBox, visible, captured >>
  /\ UNCHANGED << ssaoVars, shaderVars, sampleVars, clearVars, drawVars, meshVars >>

\* UserInterface::poll_message(): the next message of the queue is routed
\* to its destination and from there up the tree, and returned.
PollMessage ==
  /\ cbPc = "built"
  /\ queue # << >>
  /\ LET message == Head(queue)
         reached == \/ message.destination = checkBox.handle
                    \/ HasDescendant(checkBox.handle, message.destination)
         out == IF reached THEN CheckBoxHandleRoutedMessage(checkBox, captured, message)
                ELSE Handled(checkBox, << >>, captured, message.handled) IN
     /\ visible' = WidgetHandleRoutedMessage(visible, message)
     /\ checkBox' = out.self
     /\ captured' = out.captured
     /\ queue' = Tail(queue) \o out.sent
     /\ uiLog' = [uiLog EXCEPT !.previous = uiLog.polled,
                               !.polled = Some([message EXCEPT !.handled = out.handled]),
                               !.emitted = out.sent,
                               !.before = checkBox.checked]
  /\ UNCHANGED cbPc
  /\ UNCHANGED << ssaoVars, shaderVars, sampleVars, clearVars, drawVars, meshVars >>

----------------------------------------------------------------------------
(* The editor command that sets the diffuse texture of a mesh. *)

\* The materials of the scene and the textures a sampler may hold.
MaterialIds == {"m1", "m2"}
TextureResources == {"t1", "t2"}
SamplerValues == {None} \cup {Some(t) : t \in TextureResources}

\* A mesh: the material of each of its surfaces, in order; surfaces may
\* share a material, and a mesh may have no surface.
Meshes == UNION {[1..n -> MaterialIds] : n \in 0..MaxSurfaces}

\* enum TextureSet.
Single(texture) == [kind |-> "Single", texture |-> texture, set |-> << >>]
Multiple(set) == [kind |-> "Multiple", texture |-> "none", set |-> set]

\* SetMeshTextureCommand::new(node, texture).
SetMeshTextureCommandNew(texture) == [node |-> "mesh", set |-> Single(texture)]

\* The map over the surfaces in execute: the sampler value of each.
OldSet(surfaces, mats) == [i \in 1..Len(surfaces) |-> mats[surfaces[i]]]

\* The loop of execute: set_property("diffuseTexture", texture) on the
\* material of every surface.
SetAll(surfaces, mats, value) ==
  [m \in DOMAIN mats |->
     IF \E i \in 1..Len(surfaces) : surfaces[i] = m THEN value ELSE mats[m]]

\* The loop of revert giving every surface the first saved value.
RECURSIVE RestoreFirstToAll(_, _, _, _)
RestoreFirstToAll(surfaces, mats, set, k) ==
  IF k > Len(surfaces) \/ k > Len(set) THEN mats
  ELSE RestoreFirstToAll(surfaces, [mats EXCEPT ![surfaces[k]] = set[1]], set, k + 1)

\* The loop of revert: the surfaces zipped with the saved values, each
\* material set to the value saved for its surface, from surface k on.
RECURSIVE Restore(_, _, _, _)
Restore(surfaces, mats, set, k) ==
  IF k > Len(surfaces) \/ k > Len(set) THEN mats
  ELSE Restore(surfaces, [mats EXCEPT ![surfaces[k]] = set[k]], set, k + 1)

\* What a call leaves: the panic it ended in ("none" when it returned), the
\* command and the materials.
Outcome(panic, self, mats) == [panic |-> panic, cmd |-> self, materials |-> mats]

\* execute(context).
ExecuteOn(self, surfaces, mats) ==
  IF self.set.kind = "Single"
  THEN Outcome("none", [self EXCEPT !.set = Multiple(OldSet(surfaces, mats))],
               SetAll(surfaces, mats, Some(self.set.texture)))
  ELSE Outcome("unreachable", self, mats)

\* revert that stores nothing back into self.set.
RevertOnKeepsSet(self, surfaces, mats) ==
  IF self.set.kind = "Multiple"
  THEN IF Len(surfaces) = 0 THEN Outcome("index", self, mats)
       ELSE IF mats[surfaces[1]] = None THEN Outcome("unwrap", self, mats)
       ELSE IF Len(surfaces) # Len(self.set.set) THEN Outcome("assert_eq", self, mats)
       ELSE Outcome("none", self, Restore(surfaces, mats, self.set.set, 1))
  ELSE Outcome("unreachable", self, mats)

\* revert(context): surfaces_mut()[0] panics on a mesh without surfaces,
\* the unwrap on a first surface without a texture, assert_eq! on a length
\* mismatch.
RevertOn(self, surfaces, mats) ==
  IF self.set.kind = "Multiple"
  THEN IF Len(surfaces) = 0 THEN Outcome("index", self, mats)
       ELSE IF mats[surfaces[1]] = None THEN Outcome("unwrap", self, mats)
       ELSE IF Len(surfaces) # Len(self.set.set) THEN Outcome("assert_eq", self, mats)
       ELSE Outcome("none", [self EXCEPT !.set = Single(mats[surfaces[1]][1])],
                    Restore(surfaces, mats, self.set.set, 1))
  ELSE Outcome("unreachable", self, mats)

\* A call of the command ends: its outcome becomes the state.
Called(name, out) ==
  /\ cmdPc = "ready"
  /\ Len(cmdLog.calls) < MaxCalls
  /\ cmd' = out.cmd
  /\ materials' = out.materials
  /\ cmdPc' = IF out.panic = "none" THEN "ready" ELSE "panicked"
  /\ cmdLog' = [calls |-> Append(cmdLog.calls, name), panic |-> out.panic,
                states |-> Append(cmdLog.states, out.materials)]
  /\ UNCHANGED mesh
  /\ UNCHANGED << ssaoVars, shaderVars, sampleVars, clearVars, drawVars, uiVars >>

\* The editor executes the command.
Execute == Called("execute", ExecuteOn(cmd, mesh, materials))

\* The editor reverts the command.
Revert == Called("revert", RevertOn(cmd, mesh, materials))

----------------------------------------------------------------------------
(* Initial states and specifications. *)

SsaoInit ==
  /\ pc = "start"
  /\ newArgs = [frame_width |-> 0, frame_height |-> 0,
                env |-> CHOOSE e \in NewEnvs : TRUE]
  /\ created = << >>
  /\ newResult = Err("not called")
  /\ ssao = NoPass
  /\ textures = << >>
  /\ buffer = << >>
  /\ ops = << >>
  /\ renderResult = Err("not called")
  /\ renderArgs = [gbuffer |-> CHOOSE g \in GBuffers : TRUE, projection_matrix |-> "identity",
                   view_matrix |-> "identity", env |-> [o \in RenderOps |-> TRUE],
                   previous |-> None]
  /\ frames = 0
  /\ radiusArg = None
  /\ queried = [fn |-> "none", texture |-> 0]
  /\ draws = << >>

ShaderIdle ==
  /\ shaderIn = [kind |-> "ssao", glsl |-> [compiled |-> FALSE, uniforms |-> {}, blocks |-> {}]]
  /\ shaderOut = [called |-> FALSE, result |-> Err("not called")]

SampleIdle ==
  /\ sampleIn = [i |-> 0, draws |-> << 0, 0, 0 >>]
  /\ sampleOut = [called |-> FALSE, sample |-> [panic |-> FALSE, v |-> << 0, 0, 0 >>]]

ClearInit ==
  /\ fb = [color |-> [p \in Pixels |-> "old"], depth |-> [p \in Pixels |-> 0],
           stencil |-> [p \in Pixels |-> 0]]
  /\ clearArgs = [calls |-> 0, viewport |-> Rect(0, 0, 1, 1), color |-> None, depth |-> None,
                  stencil |-> None, before |-> fb]

DrawIdle ==
  /\ pipeline = DefaultPipeline
  /\ drawLog = [calls |-> 0, params |-> SsaoDrawParameters]

\* A user interface with no checkbox yet.
UiInit ==
  /\ cbPc = "unbuilt"
  /\ checkBox = [handle |-> "NONE", checked |-> None, check_mark |-> "NONE",
                 uncheck_mark |-> "NONE", undefined_mark |-> "NONE"]
  /\ visible = [check_mark |-> FALSE, uncheck_mark |-> FALSE, undefined_mark |-> FALSE]
  /\ queue = << >>
  /\ captured = None
  /\ uiLog = [builder |-> CheckBoxBuilderNew, inputs |-> 0, clicks |-> 0,
              polled |-> None, previous |-> None, emitted |-> << >>, before |-> None]

\* A scene with a mesh without surfaces and a command never called.
MeshIdle ==
  /\ mesh = << >>
  /\ materials = [m \in MaterialIds |-> None]
  /\ cmd = SetMeshTextureCommandNew("t1")
  /\ cmdPc = "ready"
  /\ cmdLog = [calls |-> << >>, panic |-> "none", states |-> << materials >>]

Init == SsaoInit /\ ShaderIdle /\ SampleIdle /\ ClearInit /\ DrawIdle /\ UiInit /\ MeshIdle

\* Construction of the SSAO pass on every frame size and environment.
NewNext ==
  /\ pc = "start"
  /\ \E fw \in FrameSizes, fh \in FrameSizes, env \in NewEnvs : New(fw, fh, env)
  /\ UNCHANGED << shaderVars, sampleVars, clearVars, drawVars, uiVars, meshVars >>

NewSpec == Init /\ [][NewNext]_vars

\* The frames of the passes that are used after their construction.
PassFrames == {<< 64, 64 >>, << 0, MaxFrame >>}

\* The SSAO pass: one pass is constructed, then used.
Next ==
  \/ /\ pc = "start"
     /\ \E f \in PassFrames, env \in NewEnvs : New(f[1], f[2], env)
     /\ UNCHANGED << shaderVars, sampleVars, clearVars, drawVars, uiVars, meshVars >>
  \/ \E r \in F32Inputs : SetRadius(r) /\ UNCHANGED << shaderVars, sampleVars, clearVars, drawVars, uiVars, meshVars >>
  \/ AoMap /\ UNCHANGED << shaderVars, sampleVars, clearVars, drawVars, uiVars, meshVars >>
  \/ RawAoMap /\ UNCHANGED << shaderVars, sampleVars, clearVars, drawVars, uiVars, meshVars >>
  \/ \E g \in GBuffers, p \in Projections, v \in Views, env \in RenderEnvs :
       Render(g, p, v, env) /\ UNCHANGED << shaderVars, sampleVars, clearVars, drawVars, uiVars, meshVars >>

Spec == Init /\ [][Next]_vars

\* The shader wrappers: new on every outcome of the server.
ShaderInit ==
  /\ SsaoInit /\ SampleIdle /\ ClearInit /\ DrawIdle /\ UiInit /\ MeshIdle
  /\ shaderIn \in [kind : {"point", "ssao"}, glsl : GlslOutcomes]
  /\ shaderOut = [called |-> FALSE, result |-> Err("not called")]

ShaderNext == ShaderNewCall

ShaderSpec == ShaderInit /\ [][ShaderNext]_vars

\* The kernel loop: one iteration on every index and every draw.
SampleInit ==
  /\ SsaoInit /\ ShaderIdle /\ ClearInit /\ DrawIdle /\ UiInit /\ MeshIdle
  /\ sampleIn \in [i : 0..(KERNEL_SIZE - 1), draws : Draws]
  /\ sampleOut = [called |-> FALSE, sample |-> [panic |-> FALSE, v |-> << 0, 0, 0 >>]]

SampleNext == GenSample

SampleSpec == SampleInit /\ [][SampleNext]_vars

\* The color content before the clear: the first k columns black.
ColorPlanes == {[p \in Pixels |-> IF p[1] < k THEN "black" ELSE "old"] : k \in 0..FbSize}

\* FrameBuffer::clear: one clear of a framebuffer.
ClearSpecInit ==
  /\ SsaoInit /\ ShaderIdle /\ SampleIdle /\ DrawIdle /\ UiInit /\ MeshIdle
  /\ fb \in [color : ColorPlanes, depth : {[p \in Pixels |-> 0]},
              stencil : {[p \in Pixels |-> 0]}]
  /\ clearArgs = [calls |-> 0, viewport |-> Rect(0, 0, 1, 1), color |-> None, depth |-> None,
                  stencil |-> None, before |-> fb]

ClearNext ==
  \E vp \in Viewports, c \in ClearColors, d \in ClearDepths, st \in ClearStencils :
    Clear(vp, c, d, st)

ClearSpec == ClearSpecInit /\ [][ClearNext]_vars

\* FrameBuffer::draw: consecutive draw calls on one server.
DrawNext == \E params \in DrawParameterSets : Draw(params)

DrawSpec == Init /\ [][DrawNext]_vars

\* The Check and key messages sent to the interface from outside.
CheckInputs ==
  {CheckBoxMessageChecked("check_box", d, v) : d \in {"ToWidget", "FromWidget"}, v \in OptionBool}
    \cup {CheckBoxMessageChecked("background", "ToWidget", v) : v \in OptionBool}
    \cup {CheckBoxMessageChecked("other", "ToWidget", Some(TRUE))}
    \cup {WidgetMessageKeyDown("check_box", "Space", h) : h \in BOOLEAN}
    \cup {WidgetMessageKeyDown("check_box", "Enter", FALSE)}

\* A checkbox is built, Check and key messages are sent and the queue is polled.
CheckNext ==
  \/ \E builder \in Builders : Build(builder)
  \/ \E message \in CheckInputs : SendMessage(message)
  \/ PollMessage

CheckSpec == Init /\ [][CheckNext]_vars

\* The mouse messages sent to the interface from outside.
MouseInputs ==
  {WidgetMessageMouse(k, "check_box", b) : k \in {"MouseDown", "MouseUp"}, b \in {"Left", "Right"}}
    \cup {WidgetMessageMouse(k, d, "Left") : k \in {"MouseDown", "MouseUp"},
                                              d \in {"background", "other"}}

\* A checkbox is built, mouse messages are sent and the queue is polled.
MouseNext ==
  \/ \E builder \in Builders : Build(builder)
  \/ \E message \in MouseInputs : SendMessage(message)
  \/ PollMessage

MouseSpec == Init /\ [][MouseNext]_vars

\* The key messages sent to the interface from outside.
KeyInputs ==
  {WidgetMessageKeyDown(d, k, h) : d \in {"check_box", "background", "other"},
                                   k \in {"Space", "Enter"}, h \in BOOLEAN}

\* A checkbox is built, key messages are sent and the queue is polled.
KeyNext ==
  \/ \E builder \in Builders : Build(builder)
  \/ \E message \in KeyInputs : SendMessage(message)
  \/ PollMessage

KeySpec == Init /\ [][KeyNext]_vars

\* Every message sent to the interface from outside.
UiInputs == CheckInputs \cup MouseInputs

\* A checkbox is built, messages of every kind are sent, and the main loop
\* keeps polling the queue while it holds a message.
UiNext ==
  \/ \E builder \in Builders : Build(builder)
  \/ \E message \in UiInputs : SendMessage(message)
  \/ PollMessage

UiSpec == Init /\ [][UiNext]_vars /\ WF_vars(PollMessage)

\* A command is made for a mesh of the scene and then executed and
\* reverted in any order.
CommandInit ==
  /\ SsaoInit /\ ShaderIdle /\ SampleIdle /\ ClearInit /\ DrawIdle /\ UiInit
  /\ mesh \in Meshes
  /\ materials \in [MaterialIds -> SamplerValues]
  /\ cmd \in {SetMeshTextureCommandNew(t) : t \in TextureResources}
  /\ cmdPc = "ready"
  /\ cmdLog = [calls |-> << >>, panic |-> "none", states |-> << materials >>]

CommandNext == Execute \/ Revert

CommandSpec == CommandInit /\ [][CommandNext]_vars

----------------------------------------------------------------------------
(* Properties. *)

\* The occlusion target of a constructed pass.
OcclusionTarget == textures[ssao.framebuffer.color[1].texture]

\* half is max(1, floor(size / 2)), stated without division.
IsHalfOf(half, size) ==
  /\ half >= 1
  /\ size <= 1 => half = 1
  /\ size >= 2 => (2 * half <= size /\ size <= 2 * half + 1)

\* C1: new sizes the occlusion target, and the stored width and height, to
\* max(1, floor(frame / 2)) on both axes: never 0, and 32x32 for a 64x64 frame.
C1_HalfResolution ==
  pc = "ready" =>
    /\ IsHalfOf(OcclusionTarget.width, newArgs.frame_width)
    /\ IsHalfOf(OcclusionTarget.height, newArgs.frame_height)
    /\ ssao.width = OcclusionTarget.width
    /\ ssao.height = OcclusionTarget.height
    /\ (newArgs.frame_width = 64 /\ newArgs.frame_height = 64)
         => (OcclusionTarget.width = 32 /\ OcclusionTarget.height = 32)

\* A pass built for a 64 x 0 frame: a 32 x 1 target.
C1_Witness ==
  /\ pc = "ready"
  /\ newArgs.frame_width = 64 /\ newArgs.frame_height = 0
  /\ ssao.width = 32 /\ ssao.height = 1

\* r is the absolute value of x: the same magnitude with the sign cleared
\* (so NaN for NaN).
IsAbsOf(r, x) == r.cls = x.cls /\ r.v >= 0 /\ (r.v = x.v \/ r.v = -x.v)

\* The radius is 0.5 before any set_radius and |argument| after one.
RadiusIsLastAbs ==
  /\ radiusArg = None => ssao.radius = Fin(1)
  /\ radiusArg # None => IsAbsOf(ssao.radius, radiusArg[1])

\* A step of render.
RenderStep == frames' # frames

\* C2 as stated: after any sequence of set_radius calls the radius is
\* non-negative and the absolute value of the last argument, 0.5 before any
\* call, and render never changes it.
C2_RadiusNonNegative ==
  /\ [](pc = "ready" => (f32_ge_zero(ssao.radius) /\ RadiusIsLastAbs))
  /\ [][RenderStep => ssao'.radius = ssao.radius]_vars

\* C2, amended: the radius is the absolute value of the last argument (0.5
\* before any call), which is non-negative unless that argument is NaN, when
\* the radius is NaN; render never changes it.
C2_RadiusAbs ==
  /\ [](pc = "ready" =>
          /\ RadiusIsLastAbs
          /\ (radiusArg = None \/ radiusArg[1].cls # "nan") => f32_ge_zero(ssao.radius)
          /\ (radiusArg # None /\ radiusArg[1].cls = "nan") => ssao.radius = NaN)
  /\ [][RenderStep => ssao'.radius = ssao.radius]_vars

\* set_radius(-2.0) left 2.0 (MaxRadius halves), and a render uploaded it.
C2_Witness ==
  /\ pc = "ready"
  /\ radiusArg = Some(Fin(-MaxRadius))
  /\ ssao.radius = Fin(MaxRadius)
  /\ frames > 0
  /\ buffer # << >>
  /\ buffer[7].value = Fin(MaxRadius)

\* Whether the environment of new lets a creation step succeed.
CreationSucceeds(step, env) ==
  IF step = "shader"
  THEN /\ env.glsl.compiled
       /\ {"depthSampler", "normalSampler", "noiseSampler"} \subseteq env.glsl.uniforms
       /\ "Uniforms" \in env.glsl.blocks
  ELSE env.server[step]

\* The creation steps in the order the claim gives.
CreationOrder == << "occlusion", "uniform_buffer", "blur", "shader", "framebuffer",
                    "quad", "noise" >>

IsCreationStep(step) == step \in CreationSteps

\* C3: new returns a pass only if every creation step succeeded; when a step
\* fails new returns that step's error, attempts no later step and returns
\* no pass.
C3_NewAllOrNothing ==
  LET attempted == SelectSeq(created, IsCreationStep)
      last == Len(attempted) IN
  pc # "start" =>
    /\ newResult.ok <=> pc = "ready"
    /\ attempted = SubSeq(CreationOrder, 1, last)
    /\ \A k \in 1..(last - 1) : CreationSucceeds(attempted[k], newArgs.env)
    /\ pc = "ready" =>
         /\ last = Len(CreationOrder)
         /\ CreationSucceeds(attempted[last], newArgs.env)
         /\ ssao # NoPass
    /\ pc = "failed" =>
         /\ last >= 1
         /\ ~CreationSucceeds(attempted[last], newArgs.env)
         /\ newResult.err = attempted[last]
    /\ pc # "ready" => (ssao = NoPass /\ textures = << >>)
    /\ (\E k \in 1..Len(CreationOrder) : ~CreationSucceeds(CreationOrder[k], newArgs.env))
         => pc # "ready"

\* The quad geometry failed after five successful creations, and the noise
\* texture, which would have succeeded, was not asked for.
C3_Witness ==
  /\ pc = "failed"
  /\ newResult.err = "quad"
  /\ Len(created) = 6
  /\ newArgs.env.server["noise"]

\* The names a wrapper looks up.
NeededUniforms(kind) ==
  IF kind = "point"
  THEN {"depthTexture", "colorTexture", "normalTexture", "materialTexture", "pointShadowTexture"}
  ELSE {"depthSampler", "normalSampler", "noiseSampler"}

\* C4: a shader wrapper's new returns Ok exactly when the program builds and
\* every uniform and the block Uniforms are found, and then holds every
\* location; otherwise it returns an error and no shader object.
C4_ShaderAtomic ==
  LET g == shaderIn.glsl
      r == shaderOut.result
      needed == NeededUniforms(shaderIn.kind) IN
  shaderOut.called =>
    /\ r.ok <=> (g.compiled /\ needed \subseteq g.uniforms /\ "Uniforms" \in g.blocks)
    /\ r.ok =>
         /\ r.err = "none"
         /\ Len(r.val.locations) = Cardinality(needed) + 1
         /\ {r.val.locations[k].name : k \in 1..Cardinality(needed)} = needed
         /\ r.val.locations[Cardinality(needed) + 1] =
              [field |-> IF shaderIn.kind = "point" THEN "uniform_buffer_binding"
                         ELSE "uniform_block_index",
               kind |-> "block", name |-> "Uniforms"]
    /\ ~r.ok => (r.val = "none" /\ r.err # "none")

\* The point-light program built but lacks only the last sampler.
C4_Witness ==
  /\ shaderOut.called
  /\ shaderIn.kind = "point"
  /\ shaderIn.glsl.compiled
  /\ "Uniforms" \in shaderIn.glsl.blocks
  /\ NeededUniforms("point") \ shaderIn.glsl.uniforms = {"pointShadowTexture"}
  /\ ~shaderOut.result.ok
  /\ shaderOut.result.err = "pointShadowTexture"

\* The position of an operation in the log of the last render (0: absent).
OpIndex(op) == IF \E k \in 1..Len(ops) : ops[k] = op
               THEN CHOOSE k \in 1..Len(ops) : ops[k] = op ELSE 0

OpCount(op) == Cardinality({k \in 1..Len(ops) : ops[k] = op})

\* C5: a successful render clears, writes the uniforms, draws and runs the
\* blur, once each and in this order; the blur never precedes the draw.
C5_RenderOrder ==
  /\ (frames > 0 /\ renderResult.ok) =>
       /\ \A op \in {"clear", "write_data", "draw", "blur.render"} : OpCount(op) = 1
       /\ Len(ops) = 4
       /\ OpIndex("clear") < OpIndex("write_data")
       /\ OpIndex("write_data") < OpIndex("draw")
       /\ OpIndex("draw") < OpIndex("blur.render")
  /\ (frames > 0 /\ OpIndex("blur.render") # 0) =>
       (OpIndex("draw") # 0 /\ OpIndex("draw") < OpIndex("blur.render"))

\* The second render of a pass succeeded.
C5_Witness ==
  /\ frames = 2
  /\ renderResult.ok
  /\ Len(ops) = 4

\* C6: render returns the error of the first failing operation and attempts
\* nothing after it, and attempts no operation twice.
C6_RenderPropagates ==
  LET env == renderArgs.env IN
  frames > 0 =>
    /\ \A op \in RenderOps \cup {"clear"} : OpCount(op) <= 1
    /\ ~env["write_data"] =>
         /\ ~renderResult.ok /\ renderResult.err = "write_data"
         /\ OpCount("draw") = 0 /\ OpCount("blur.render") = 0
    /\ (env["write_data"] /\ ~env["draw"]) =>
         /\ ~renderResult.ok /\ renderResult.err = "draw"
         /\ OpCount("draw") = 1 /\ OpCount("blur.render") = 0
    /\ (env["write_data"] /\ env["draw"] /\ ~env["blur.render"]) =>
         /\ ~renderResult.ok /\ renderResult.err = "blur.render"
         /\ OpCount("blur.render") = 1
    /\ (env["write_data"] /\ env["draw"] /\ env["blur.render"]) => renderResult.ok

\* The draw failed although the blur would have succeeded.
C6_Witness ==
  /\ frames > 0
  /\ renderArgs.env["write_data"] /\ ~renderArgs.env["draw"] /\ renderArgs.env["blur.render"]
  /\ renderResult.err = "draw"

\* C7: every generated kernel sample has Z >= 0 and magnitude <= 1.
C7_KernelInHemisphere ==
  (sampleOut.called /\ ~sampleOut.sample.panic) =>
    LET v == sampleOut.sample.v IN
    /\ v[3] >= 0
    /\ v[1] * v[1] + v[2] * v[2] + v[3] * v[3] <= One * One

\* The last sample, from a draw on the rim of the hemisphere (z = 0).
C7_Witness ==
  /\ sampleOut.called
  /\ ~sampleOut.sample.panic
  /\ sampleIn.i = KERNEL_SIZE - 1
  /\ sampleIn.draws = << -Grid, -Grid, 0 >>
  /\ sampleOut.sample.v[1] < 0
  /\ sampleOut.sample.v[3] = 0

\* C8: the kernel has KERNEL_SIZE samples, no operation after new changes
\* it, and every render uploads it.
C8_KernelFixed ==
  /\ [](pc = "ready" =>
          /\ Len(ssao.kernel) = KERNEL_SIZE
          /\ (frames > 0 /\ OpCount("write_data") = 1 /\ renderResult.err # "write_data")
               => (buffer[4].field = "kernel" /\ buffer[4].value = ssao.kernel))
  /\ [][pc = "ready" => ssao'.kernel = ssao.kernel]_vars

\* Two renders uploaded the kernel, around a set_radius and an ao_map.
C8_Witness ==
  /\ frames = 2
  /\ renderResult.ok
  /\ radiusArg # None
  /\ queried.fn = "ao_map"
  /\ Len(buffer[4].value) = 32

\* C9: ao_map is the blur's result texture and raw_ao_map the single color
\* attachment of the pass's framebuffer, which has no depth attachment; the
\* handles never change, and after a successful render the blurred map
\* holds the blur of the raw map drawn in that render.
C9_AoMaps ==
  /\ [](pc = "ready" =>
          /\ Len(ssao.framebuffer.color) = 1
          /\ ssao.framebuffer.color[1].kind = "Color"
          /\ ssao.framebuffer.depth = None
          /\ ssao.framebuffer.color[1].texture \in DOMAIN textures
          /\ queried.fn = "raw_ao_map" => queried.texture = ssao.framebuffer.color[1].texture
          /\ queried.fn = "ao_map" => queried.texture = ssao.blur.framebuffer.color[1].texture
          /\ (frames > 0 /\ renderResult.ok) =>
               /\ textures[ssao.framebuffer.color[1].texture].content =
                    [op |-> "ssao", frame |-> frames, of |-> "none"]
               /\ textures[ssao.blur.framebuffer.color[1].texture].content =
                    [op |-> "blur", frame |-> frames, of |-> "ssao"])
  /\ [][pc = "ready" => /\ ao_map(ssao)' = ao_map(ssao)
                        /\ raw_ao_map(ssao)' = raw_ao_map(ssao)]_vars

\* ao_map was read after the second successful render.
C9_Witness ==
  /\ frames = 2
  /\ renderResult.ok
  /\ queried = [fn |-> "ao_map", texture |-> BlurTex]
  /\ textures[BlurTex].content.frame = 2

\* C10: clear changes a channel only where its value is present and the
\* pixel is in the viewport, and there sets it to the value.
C10_ClearChannels ==
  LET a == clearArgs
      Cleared(plane, before, value) ==
        \A p \in Pixels :
          IF value # None /\ Inside(p, a.viewport)
          THEN plane[p] = value[1]
          ELSE plane[p] = before[p] IN
  clearArgs.calls > 0 =>
    /\ Cleared(fb.color, a.before.color, a.color)
    /\ Cleared(fb.depth, a.before.depth, a.depth)
    /\ Cleared(fb.stencil, a.before.stencil, a.stencil)
    /\ (a.color = None /\ a.depth = Some(1) /\ a.stencil = None) =>
         /\ fb.color = a.before.color
         /\ fb.stencil = a.before.stencil
         /\ \A p \in Pixels : Inside(p, a.viewport) => fb.depth[p] = 1

\* A depth-only clear of a part of a framebuffer with both colors in it.
C10_Witness ==
  /\ clearArgs.calls = 1
  /\ \E p \in Pixels : clearArgs.before.color[p] = "old"
  /\ clearArgs.color = None /\ clearArgs.depth = Some(1) /\ clearArgs.stencil = None
  /\ clearArgs.viewport = Rect(1, 0, 1, 1)
  /\ \E p \in Pixels : clearArgs.before.color[p] = "black"
  /\ \E p \in Pixels : fb.depth[p] = 0

\* The pipeline state a draw runs under, as DrawParameters.
StateInEffect(state) ==
  LET OptionOf(slot) == IF slot.enabled THEN Some(slot.value) ELSE None IN
  [cull_face |-> OptionOf(state.cull_face), color_write |-> state.color_write,
   depth_write |-> state.depth_write, stencil_test |-> OptionOf(state.stencil_test),
   depth_test |-> OptionOf(state.depth_test), blend |-> OptionOf(state.blend),
   stencil_op |-> state.stencil_op, scissor_box |-> OptionOf(state.scissor_box)]

\* C11: the pipeline state in effect for a draw (cull face, color and depth
\* write masks, stencil test and op, depth test, blend, scissor box) is
\* exactly the state of that call's DrawParameters, whatever the draws
\* before it set.
C11_DrawStateIsolated ==
  drawLog.calls >= 1 => StateInEffect(pipeline) = drawLog.params

\* A second draw that switches off the blending and the scissor box an
\* earlier draw had switched on, and switches on the culling.
C11_Witness ==
  /\ drawLog.calls = 2
  /\ pipeline.blend = Slot(FALSE, "alpha")
  /\ pipeline.scissor_box = Slot(FALSE, "box")
  /\ pipeline.cull_face.enabled
  /\ drawLog.params.depth_write

\* The textures a draw call samples.
DrawInputs(draw) ==
  {draw.groups[g].bindings[b].resource :
     << g, b >> \in {gb \in (DOMAIN draw.groups) \X (1..4) :
                       /\ gb[2] \in DOMAIN draw.groups[gb[1]].bindings
                       /\ draw.groups[gb[1]].bindings[gb[2]].kind = "Texture"}}

\* The textures attached to the framebuffer a draw call draws into.
DrawTargets(draw) ==
  {draw.framebuffer.color[a].texture : a \in DOMAIN draw.framebuffer.color}
    \cup {draw.framebuffer.depth[a].texture : a \in DOMAIN draw.framebuffer.depth}

\* C12: in every draw of a render call no texture is both sampled and
\* attached to the framebuffer drawn into, the G-buffer textures not being
\* the pass's own: the SSAO draw samples the G-buffer depth, the G-buffer
\* normals and the noise and draws into the occlusion texture only, the blur
\* samples the occlusion texture and draws into its own target only.
C12_NoFeedback ==
  LET g == renderArgs.gbuffer
      own == {raw_ao_map(ssao), ao_map(ssao), ssao.noise} IN
  (pc = "ready" /\ {g.depth, g.normal} \cap own = {}) =>
    \A k \in DOMAIN draws :
      /\ DrawInputs(draws[k]) \cap DrawTargets(draws[k]) = {}
      /\ draws[k].pass = "ssao" =>
           /\ DrawInputs(draws[k]) = {g.depth, g.normal, ssao.noise}
           /\ DrawTargets(draws[k]) = {raw_ao_map(ssao)}
      /\ draws[k].pass = "blur" =>
           /\ DrawInputs(draws[k]) = {raw_ao_map(ssao)}
           /\ DrawTargets(draws[k]) = {ao_map(ssao)}

\* A render call that issued both draws.
C12_Witness ==
  /\ pc = "ready"
  /\ Len(draws) = 2
  /\ draws[1].pass = "ssao" /\ draws[2].pass = "blur"
  /\ renderResult.ok

\* C13: every render call builds the bind group of its one draw from the
\* G-buffer passed to that call: exactly four bindings, in the order depth
\* texture, normal texture, noise texture, uniform buffer, each at the
\* location Shader::new resolved for it, whatever the G-buffer of the
\* render call before was.
C13_BindGroupPerRender ==
  LET g == renderArgs.gbuffer
      ssaoDraws == {k \in DOMAIN draws : draws[k].pass = "ssao"}
      Resolved(name) == \E k \in DOMAIN ssao.shader.locations :
                           /\ ssao.shader.locations[k].name = name
                           /\ created[4] = "shader" IN
  pc = "ready" =>
    /\ Cardinality(ssaoDraws) = (IF \E k \in DOMAIN ops : ops[k] = "draw" THEN 1 ELSE 0)
    /\ \A k \in ssaoDraws :
         /\ Len(draws[k].groups) = 1
         /\ LET b == draws[k].groups[1].bindings IN
            /\ Len(b) = 4
            /\ [i \in 1..4 |-> b[i].kind] = << "Texture", "Texture", "Texture", "Buffer" >>
            /\ [i \in 1..4 |-> b[i].resource] = << g.depth, g.normal, ssao.noise, UniformBufferId >>
            /\ [i \in 1..4 |-> b[i].shader_location.kind] = << "Uniform", "Uniform", "Uniform", "Auto" >>
            /\ [i \in 1..4 |-> b[i].shader_location.location.name]
                 = << "depthSampler", "normalSampler", "noiseSampler", "Uniforms" >>
            /\ \A i \in 1..4 : Resolved(b[i].shader_location.location.name)

\* A second render call, with another G-buffer than the first, whose draw
\* binds the textures of its own G-buffer.
C13_Witness ==
  /\ pc = "ready"
  /\ frames = 2
  /\ renderArgs.previous # None
  /\ renderArgs.previous # Some(renderArgs.gbuffer)
  /\ Len(draws) >= 1
  /\ draws[1].pass = "ssao"
  /\ draws[1].groups[1].bindings[1].resource = renderArgs.gbuffer.depth

\* C14: a render call serializes the uniform block by pushes in the order
\* frame matrix, inverse projection, projection, the KERNEL_SIZE kernel
\* vectors, noise scale, view matrix, radius, each with the value of this
\* call, and writes it to the uniform buffer in one write, ahead of the draw
\* that reads it.
C14_UniformOrder ==
  [][(RenderStep /\ renderArgs'.env["write_data"]) =>
       /\ Len(buffer') = 7
       /\ [k \in 1..7 |-> buffer'[k].field]
            = << "frame_matrix", "inv_projection", "projection", "kernel",
                 "noise_scale", "view", "radius" >>
       /\ buffer'[1].value = << ssao.width, ssao.height >>
       /\ buffer'[2].value = (IF renderArgs'.projection_matrix = "singular"
                              THEN "zero" ELSE renderArgs'.projection_matrix)
       /\ buffer'[3].value = renderArgs'.projection_matrix
       /\ buffer'[4].value = ssao.kernel
       /\ Len(buffer'[4].value) = KERNEL_SIZE
       /\ buffer'[6].value = renderArgs'.view_matrix
       /\ buffer'[7].value = ssao.radius
       /\ Cardinality({k \in DOMAIN ops' : ops'[k] = "write_data"}) = 1
       /\ \A d \in DOMAIN ops' : ops'[d] = "draw" =>
            \E w \in 1..(d - 1) : ops'[w] = "write_data"]_vars

\* The second render of a pass uploads the radius set after the first and
\* the default matrix for a singular projection.
C14_Witness ==
  /\ frames = 2
  /\ renderArgs.env["write_data"]
  /\ renderArgs.projection_matrix = "singular"
  /\ buffer[2].value = "zero"
  /\ radiusArg = Some(Fin(-MaxRadius))
  /\ buffer[7].value = Fin(MaxRadius)
  /\ Len(draws) >= 1

\* C15: the noise texture is NOISE_SIZE x NOISE_SIZE, created once, in new,
\* with wrap mode Repeat on S and on T and a blue channel of 0 in every
\* pixel, and stays so; the noise scale every render uploads is
\* (width / NOISE_SIZE, height / NOISE_SIZE), width and height being those
\* of the pass's render target.
C15_NoiseTexture ==
  /\ [](pc = "ready" =>
          LET noise == textures[ssao.noise] IN
          /\ Cardinality({k \in DOMAIN created : created[k] = "noise"}) = 1
          /\ noise.width = NOISE_SIZE /\ noise.height = NOISE_SIZE
          /\ noise.wrap_s = "Repeat" /\ noise.wrap_t = "Repeat"
          /\ Len(noise.pixels) = NOISE_SIZE * NOISE_SIZE
          /\ \A p \in DOMAIN noise.pixels : noise.pixels[p][3] = 0)
  /\ [][RenderStep =>
          /\ textures'[ssao.noise] = textures[ssao.noise]
          /\ renderArgs'.env["write_data"] =>
               buffer'[5] = [field |-> "noise_scale",
                             value |-> << OcclusionTarget.width, NOISE_SIZE,
                                          OcclusionTarget.height, NOISE_SIZE >>]]_vars

\* A pass on a 0 x MaxFrame frame, whose target is not square, has rendered
\* twice and uploaded its noise scale; some noise pixel is not black.
C15_Witness ==
  /\ pc = "ready"
  /\ frames = 2
  /\ renderArgs.env["write_data"]
  /\ newArgs.frame_width = 0
  /\ buffer[5].value[1] # buffer[5].value[3]
  /\ \E p \in DOMAIN textures[ssao.noise].pixels : textures[ssao.noise].pixels[p][1] # 0

\* Whether a message has the given data, destination and direction.
IsCheck(message, destination, direction, value) ==
  /\ message.kind = "Check"
  /\ message.destination = destination
  /\ message.direction = direction
  /\ message.value = value

\* Whether the last poll returned a Check message the checkbox accepts: sent
\* to the widget, addressed to the checkbox, with a value other than its state.
PolledAcceptedCheck ==
  /\ cbPc = "built"
  /\ uiLog.polled # None
  /\ uiLog.polled[1].kind = "Check"
  /\ uiLog.polled[1].direction = "ToWidget"
  /\ uiLog.polled[1].destination = "check_box"
  /\ uiLog.polled[1].value # uiLog.before

\* A step that polls the queue.
PollStep == cbPc = "built" /\ uiLog'.inputs = uiLog.inputs /\ queue' # queue

\* C16: when a Check(v) sent to the widget, addressed to the checkbox, with v
\* other than the current state is processed, the state becomes v and exactly
\* one response is emitted: the same message reversed (same value, same
\* destination, direction FromWidget), queued behind the input message; the
\* only other messages sent go to the widget of a mark.
C16_CheckResponse ==
  [][(/\ PollStep
      /\ Head(queue).kind = "Check"
      /\ Head(queue).direction = "ToWidget"
      /\ Head(queue).destination = "check_box"
      /\ Head(queue).value # checkBox.checked) =>
       LET m == Head(queue)
           n == Len(queue) IN
       /\ checkBox'.checked = m.value
       /\ Len(queue') >= n
       /\ SubSeq(queue', 1, n - 1) = Tail(queue)
       /\ IsCheck(queue'[n], m.destination, "FromWidget", m.value)
       /\ \A k \in (n + 1)..Len(queue') :
            /\ queue'[k].kind = "Visibility"
            /\ queue'[k].direction = "ToWidget"
            /\ queue'[k].destination \in DOMAIN visible]_vars

\* The test of the source: Check(Some(true)) is sent to a default checkbox;
\* the first poll returns it and the second its reverse.
C16_Witness ==
  /\ cbPc = "built"
  /\ uiLog.builder.calls = << >>
  /\ uiLog.inputs = 1
  /\ uiLog.previous # None
  /\ IsCheck(uiLog.previous[1], "check_box", "ToWidget", Some(TRUE))
  /\ uiLog.polled # None
  /\ IsCheck(uiLog.polled[1], "check_box", "FromWidget", Some(TRUE))
  /\ checkBox.checked = Some(TRUE)

\* C17: build puts no message on the queue of the interface (a poll right
\* after it returns nothing), and a checkbox built without checked(..)
\* starts in the state Some(false).
C17_BuildSilent ==
  (cbPc = "built" /\ uiLog.inputs = 0) =>
    /\ queue = << >>
    /\ uiLog.polled = None
    /\ uiLog.builder.calls = << >> => checkBox.checked = Some(FALSE)

\* A checkbox built from a fresh builder.
C17_Witness ==
  /\ cbPc = "built"
  /\ uiLog.inputs = 0
  /\ uiLog.builder.calls = << >>
  /\ checkBox.checked = Some(FALSE)
  /\ queue = << >>

\* Whether a visibility message is still in the queue.
VisibilityPending == \E k \in DOMAIN queue : queue[k].kind = "Visibility"

\* C18: once the pending visibility messages are applied, right after build
\* and after every accepted Check, exactly one mark is visible: the check
\* mark for Some(true), the uncheck mark for Some(false), the undefined mark
\* for None.
C18_MarksMatchState ==
  (cbPc = "built" /\ ~VisibilityPending) =>
    /\ visible["check_mark"] = (checkBox.checked = Some(TRUE))
    /\ visible["uncheck_mark"] = (checkBox.checked = Some(FALSE))
    /\ visible["undefined_mark"] = (checkBox.checked = None)
    /\ Cardinality({m \in DOMAIN visible : visible[m]}) = 1

\* A checkbox built checked took Check(None) and then Check(Some(false)),
\* and every visibility message has been applied.
C18_Witness ==
  /\ cbPc = "built"
  /\ uiLog.builder.checked = Some(TRUE)
  /\ uiLog.inputs >= 2
  /\ queue = << >>
  /\ checkBox.checked = Some(FALSE)
  /\ visible["uncheck_mark"] /\ ~visible["check_mark"] /\ ~visible["undefined_mark"]
  /\ uiLog.polled # None
  /\ uiLog.polled[1].kind = "Visibility"

\* C19: a Check message changes the checkbox only when it is sent to the
\* widget, addressed to the checkbox and carries a value other than the
\* state; any other Check leaves the state as it is and makes the checkbox
\* send nothing, neither a response nor a visibility message.
C19_CheckFrame ==
  (cbPc = "built" /\ uiLog.polled # None /\ uiLog.polled[1].kind = "Check") =>
    /\ ~PolledAcceptedCheck => (checkBox.checked = uiLog.before /\ uiLog.emitted = << >>)
    /\ (checkBox.checked # uiLog.before \/ uiLog.emitted # << >>) => PolledAcceptedCheck

\* A Check with a new value but the direction FromWidget was polled, and
\* another, sent to the widget but addressed to the background, before it.
C19_Witness ==
  /\ cbPc = "built"
  /\ uiLog.polled # None
  /\ IsCheck(uiLog.polled[1], "check_box", "FromWidget", Some(TRUE))
  /\ uiLog.before = Some(FALSE)
  /\ checkBox.checked = Some(FALSE)
  /\ uiLog.previous # None
  /\ IsCheck(uiLog.previous[1], "background", "ToWidget", None)
  /\ queue = << >>

\* C20: a left-button MouseUp addressed to the checkbox or to a widget below
\* it sends Check(Some(!v)) to the checkbox in the state Some(v) and
\* Check(Some(true)) in the state None; a MouseUp of another button or
\* addressed elsewhere sends nothing. So once every message of a sequence of
\* mouse messages is processed, the state is None only if the checkbox was
\* built so and no such MouseUp was sent.
C20_MouseUpToggles ==
  LET below == {"grid", "background", "check_mark", "uncheck_mark", "undefined_mark"} IN
  /\ (cbPc = "built" /\ uiLog.polled # None /\ uiLog.polled[1].kind = "MouseUp") =>
       LET m == uiLog.polled[1] IN
       IF m.button = "Left" /\ m.destination \in {"check_box"} \cup below
       THEN /\ Len(uiLog.emitted) = 1
            /\ IsCheck(uiLog.emitted[1], "check_box", "ToWidget",
                       IF uiLog.before = None THEN Some(TRUE) ELSE Some(~uiLog.before[1]))
       ELSE uiLog.emitted = << >>
  /\ (cbPc = "built" /\ queue = << >> /\ checkBox.checked = None) =>
       (uiLog.builder.checked = None /\ uiLog.clicks = 0)

\* A checkbox built undefined was clicked twice, on the box and on its
\* background, before any message was processed; it ends checked.
C20_Witness ==
  /\ cbPc = "built"
  /\ uiLog.builder.checked = None
  /\ uiLog.clicks = 2
  /\ queue = << >>
  /\ checkBox.checked = Some(TRUE)
  /\ visible["check_mark"]
  /\ captured = None

\* Whether the calls so far alternate, starting with execute.
Alternating(calls) ==
  \A k \in DOMAIN calls : calls[k] = (IF k % 2 = 1 THEN "execute" ELSE "revert")

\* C21: called alternately starting with execute, the command never reaches
\* an unreachable!() branch; it holds TextureSet::Single before the first
\* execute and after every revert, and TextureSet::Multiple with one saved
\* entry per surface, in surface order, after every execute; execute twice
\* in a row, or revert first, panics in the unreachable!() branch.
C21_CommandModes ==
  LET calls == cmdLog.calls
      n == Len(calls) IN
  /\ Alternating(calls) => cmdLog.panic # "unreachable"
  /\ ~Alternating(calls) => (cmdPc = "panicked" /\ cmdLog.panic = "unreachable")
  /\ (cmdPc = "ready" /\ (n = 0 \/ calls[n] = "revert")) => cmd.set.kind = "Single"
  /\ (cmdPc = "ready" /\ n > 0 /\ calls[n] = "execute") =>
       /\ cmd.set.kind = "Multiple"
       /\ Len(cmd.set.set) = Len(mesh)
       /\ \A i \in 1..Len(mesh) : cmd.set.set[i] = cmdLog.states[n][mesh[i]]

\* Execute, revert and execute again returned on a mesh of two surfaces
\* with different textures in their materials.
C21_Witness ==
  /\ cmdPc = "ready"
  /\ cmdLog.calls = << "execute", "revert", "execute" >>
  /\ Len(mesh) = 2
  /\ cmd.set.kind = "Multiple"
  /\ cmd.set.set[1] # cmd.set.set[2]

\* C26: on a mesh whose surfaces hold any diffuseTexture sampler values,
\* None included, execute followed by revert leaves the sampler value of
\* every surface as it was before the execute, surface by surface, and
\* execute, revert, execute leaves every surface with the texture it had
\* after the first execute: two alternating calls always bring back the
\* values of two calls before.
C26_UndoRoundTrip ==
  LET n == Len(cmdLog.calls) IN
  (cmdPc = "ready" /\ n >= 2) =>
    \A i \in 1..Len(mesh) : materials[mesh[i]] = cmdLog.states[n - 1][mesh[i]]

\* Execute and revert returned on a mesh of two surfaces, the first without
\* a texture and the second with another texture than the command's.
C26_Witness ==
  /\ cmdPc = "ready"
  /\ cmdLog.calls = << "execute", "revert" >>
  /\ Len(mesh) = 2
  /\ mesh[1] # mesh[2]
  /\ materials[mesh[1]] = None
  /\ materials[mesh[2]] # None
  /\ cmd.set = Single(cmdLog.states[2][mesh[1]][1])
  /\ cmdLog.states[2][mesh[2]] # materials[mesh[2]]

\* C22: the statistics a successful render call returns count every draw
\* call issued during it, the draw of the blur sub-pass included, added up
\* from the default statistics.
C22_StatisticsCountEveryDraw ==
  (frames > 0 /\ renderResult.ok) => renderResult.val.draw_calls = Len(draws)

\* C23: message processing quiesces: with finitely many messages sent from
\* outside the queue empties again and again, since a poll adds at most
\* four messages, and a polled response (a Check from the widget) or
\* visibility message makes the checkbox send nothing more.
C23_Quiesces ==
  /\ []<>(queue = << >>)
  /\ [][PollStep =>
          /\ Len(queue') <= Len(queue) + 3
          /\ (\/ Head(queue).kind = "Visibility"
              \/ (Head(queue).kind = "Check" /\ Head(queue).direction = "FromWidget")) =>
               queue' = Tail(queue)]_vars

\* A click and a Check(None) were sent to a default checkbox, each was
\* accepted in turn, and the queue is empty again.
C23_Witness ==
  /\ cbPc = "built"
  /\ uiLog.builder.calls = << >>
  /\ uiLog.inputs = 2
  /\ uiLog.clicks = 1
  /\ queue = << >>
  /\ checkBox.checked = Some(TRUE)
  /\ visible["check_mark"]
  /\ uiLog.polled # None
  /\ uiLog.polled[1].kind = "Visibility"
  /\ uiLog.polled[1].destination = "undefined_mark"

\* C24: a KeyDown(Space) not yet handled that reaches the checkbox makes it
\* send Check(Some(!v)) to itself in state Some(v) and Check(None) in state
\* None, and marks the message handled; a KeyDown already handled, or of
\* another key, sends nothing and changes nothing. With key messages alone a
\* checkbox built undefined stays undefined.
C24_SpaceToggles ==
  /\ [][(/\ PollStep
         /\ Head(queue).kind = "KeyDown"
         /\ Head(queue).destination \in {"check_box", "grid", "background", "check_mark",
                                         "uncheck_mark", "undefined_mark"}) =>
          LET m == Head(queue) IN
          /\ checkBox' = checkBox
          /\ visible' = visible
          /\ captured' = captured
          /\ IF ~m.handled /\ m.key = "Space"
             THEN /\ Len(queue') = Len(queue)
                  /\ IsCheck(queue'[Len(queue')], "check_box", "ToWidget",
                             IF checkBox.checked = None THEN None
                             ELSE Some(~checkBox.checked[1]))
                  /\ uiLog'.polled[1].handled
             ELSE /\ queue' = Tail(queue)
                  /\ uiLog'.polled[1].handled = m.handled]_vars
  /\ [](cbPc = "built" /\ uiLog.builder.checked = None => checkBox.checked = None)

\* Space was pressed twice on a checkbox built undefined, both messages it
\* sent to itself were processed, and it is still undefined.
C24_Witness ==
  /\ cbPc = "built"
  /\ uiLog.builder.checked = None
  /\ uiLog.inputs = 2
  /\ queue = << >>
  /\ checkBox.checked = None
  /\ visible["undefined_mark"]
  /\ uiLog.polled # None /\ uiLog.previous # None
  /\ IsCheck(uiLog.polled[1], "check_box", "ToWidget", None)
  /\ IsCheck(uiLog.previous[1], "check_box", "ToWidget", None)

\* C25: mouse capture is balanced: a polled left-button MouseDown on the
\* checkbox or a descendant leaves the mouse captured by the checkbox; a
\* polled left-button MouseUp there leaves it released, with the toggle
\* message queued in the same step; a MouseDown or MouseUp of another button
\* or for another widget leaves the capture as it was. After a MouseDown and
\* then a MouseUp on the checkbox were processed, the mouse is not captured.
C25_CaptureBalanced ==
  /\ [][(PollStep /\ Head(queue).kind \in {"MouseDown", "MouseUp"}) =>
          LET m == Head(queue) IN
          IF /\ m.button = "Left"
             /\ m.destination \in {"check_box", "grid", "background", "check_mark",
                                   "uncheck_mark", "undefined_mark"}
          THEN IF m.kind = "MouseDown"
               THEN captured' = Some("check_box") /\ queue' = Tail(queue)
               ELSE /\ captured' = None
                    /\ Len(queue') = Len(queue)
                    /\ queue'[Len(queue')].kind = "Check"
          ELSE captured' = captured /\ queue' = Tail(queue)]_vars
  /\ [](( /\ cbPc = "built"
          /\ uiLog.previous # None /\ uiLog.polled # None
          /\ uiLog.previous[1].kind = "MouseDown" /\ IsClick(uiLog.polled[1])) =>
        captured = None)

\* The left button went down on the checkbox and up on its descendant: the
\* capture taken by the first message is released and the toggle is queued.
C25_Witness ==
  /\ cbPc = "built"
  /\ uiLog.previous # None /\ uiLog.polled # None
  /\ uiLog.previous = Some(WidgetMessageMouse("MouseDown", "check_box", "Left"))
  /\ uiLog.polled = Some(WidgetMessageMouse("MouseUp", "background", "Left"))
  /\ captured = None
  /\ Len(queue) = 1
  /\ queue[1].kind = "Check"

====
